---- MODULE Spec2Model ----
(***************************************************************************)
(* obsidian-reflector: the meeting-note parser and the collection scanner. *)
(* Strings are sequences of one-character strings, so that trim, slice,    *)
(* startsWith, split and the regular expressions are computed character by *)
(* character as the TypeScript code computes them.  Line numbers are       *)
(* 0-indexed as in the code; line i of a document is lines[i + 1].         *)
(***************************************************************************)
EXTENDS Integers, Sequences, FiniteSets, TLC

VARIABLES settings, vault, tagLastIndex, parsed, prevParsed, otherQuery, allNotes,
          currentNote, query, linkLastIndex, todoRuns, lastTodo,
          trackedFile, cursor, currentLine, pending, rendered, history

\* the panel's note, the last query of the panel, and the task linkage runs
panelVars == <<currentNote, query, linkLastIndex, todoRuns, lastTodo>>

\* the file and the line the view tracks, the cursor of every editor, the
\* calls of checkCursorPosition that await their note, what the panel was
\* rendered for, and what happened since
viewVars == <<trackedFile, cursor, currentLine, pending, rendered, history>>

vars == <<settings, vault, tagLastIndex, parsed, prevParsed, otherQuery, allNotes,
          panelVars, viewVars>>

(***************************************************************************)
(* Bounds of the model.                                                    *)
(***************************************************************************)
MaxLines == 5

Null == [null |-> TRUE]

\* the calls of getTodosForMeetingNote that can be in flight together
Slots == {1, 2}

\* the panel before any query
PanelIdle ==
    /\ currentNote = Null
    /\ query = Null
    /\ linkLastIndex = 0
    /\ todoRuns = [s \in Slots |-> Null]
    /\ lastTodo = Null

\* the view before a file was opened
ViewIdle ==
    /\ trackedFile = Null
    /\ cursor = Null
    /\ currentLine = -1
    /\ pending = <<>>
    /\ rendered = Null
    /\ history = Null

(***************************************************************************)
(* JavaScript string primitives.                                           *)
(***************************************************************************)
Digit == {"0", "1", "2", "3", "4", "5", "6", "7", "8", "9"}

Lower == {"a", "b", "c", "d", "e", "f", "g", "h", "i", "j", "k", "l", "m",
          "n", "o", "p", "q", "r", "s", "t", "u", "v", "w", "x", "y", "z"}

Upper == {"A", "B", "C", "D", "E", "F", "G", "H", "I", "J", "K", "L", "M",
          "N", "O", "P", "Q", "R", "S", "T", "U", "V", "W", "X", "Y", "Z"}

\* \w of a JavaScript regular expression
WordChar == Digit \cup Lower \cup Upper \cup {"_"}

\* the white space String.prototype.trim removes (no line terminator can
\* occur inside a line produced by split("\n") except "\r")
WhiteSpace == {" ", "\t", "\r"}

NL == "\n"

UpperSeq == <<"A", "B", "C", "D", "E", "F", "G", "H", "I", "J", "K", "L", "M",
             "N", "O", "P", "Q", "R", "S", "T", "U", "V", "W", "X", "Y", "Z">>

LowerSeq == <<"a", "b", "c", "d", "e", "f", "g", "h", "i", "j", "k", "l", "m",
             "n", "o", "p", "q", "r", "s", "t", "u", "v", "w", "x", "y", "z">>

\* String.prototype.toLowerCase
ToLower(s) ==
    [i \in 1..Len(s) |->
        IF s[i] \in Upper
        THEN LowerSeq[CHOOSE k \in 1..26 : UpperSeq[k] = s[i]]
        ELSE s[i]]

\* the first index at or after i that holds no white space
RECURSIVE SkipSpace(_, _)
SkipSpace(s, i) ==
    IF i <= Len(s) /\ s[i] \in WhiteSpace THEN SkipSpace(s, i + 1) ELSE i

\* the last index at or before i that holds no white space
RECURSIVE SkipSpaceBack(_, _)
SkipSpaceBack(s, i) ==
    IF i >= 1 /\ s[i] \in WhiteSpace THEN SkipSpaceBack(s, i - 1) ELSE i

\* String.prototype.trim
Trim(s) == SubSeq(s, SkipSpace(s, 1), SkipSpaceBack(s, Len(s)))

\* String.prototype.startsWith
StartsWith(s, p) == Len(p) <= Len(s) /\ SubSeq(s, 1, Len(p)) = p

\* String.prototype.slice(n), n >= 0
Slice(s, n) == SubSeq(s, n + 1, Len(s))

\* String.prototype.split("\n"): always at least one piece
RECURSIVE SplitFrom(_, _)
SplitFrom(s, from) ==
    IF \E i \in from..Len(s) : s[i] = NL
    THEN LET e == CHOOSE i \in from..Len(s) :
                      s[i] = NL /\ \A j \in from..(i - 1) : s[j] # NL
         IN  <<SubSeq(s, from, e - 1)>> \o SplitFrom(s, e + 1)
    ELSE <<SubSeq(s, from, Len(s))>>

Split(s) == SplitFrom(s, 1)

\* Array.prototype.join("\n")
RECURSIVE Join(_)
Join(ls) ==
    IF Len(ls) = 0 THEN <<>>
    ELSE IF Len(ls) = 1 THEN ls[1]
    ELSE ls[1] \o <<NL>> \o Join(Tail(ls))

\* [...new Set(xs)]: insertion order, first occurrence kept
RECURSIVE Unique(_)
Unique(xs) ==
    IF Len(xs) = 0 THEN <<>>
    ELSE LET init == SubSeq(xs, 1, Len(xs) - 1)
             last == xs[Len(xs)]
             u    == Unique(init)
         IN  IF \E k \in 1..Len(init) : init[k] = last THEN u ELSE Append(u, last)

(***************************************************************************)
(* meeting-note-parser.ts, module constants.                               *)
(***************************************************************************)
\* the character class [\w/-] of TAG_REGEX
TagChar == WordChar \cup {"/", "-"}

\* index of the last character of the greedy run [\w/-]+ that starts at p
RECURSIVE RunEnd(_, _)
RunEnd(s, p) ==
    IF p + 1 <= Len(s) /\ s[p + 1] \in TagChar THEN RunEnd(s, p + 1) ELSE p

\* RegExp.prototype.exec of TAG_REGEX = /#[\w/-]+/g from position `from`
\* (0-based lastIndex): the leftmost match at or after it, or Null
TagExec(s, from) ==
    LET starts == {p \in (from + 1)..(Len(s) - 1) : s[p] = "#" /\ s[p + 1] \in TagChar}
    IN  IF starts = {} THEN Null
        ELSE LET p == CHOOSE x \in starts : \A y \in starts : x <= y
             IN  [text |-> SubSeq(s, p, RunEnd(s, p + 1)),
                  lastIndex |-> RunEnd(s, p + 1)]

\* String.prototype.match with the global TAG_REGEX: lastIndex is reset to 0,
\* exec is repeated until it fails, and the failing exec leaves lastIndex 0
RECURSIVE TagMatchFrom(_, _)
TagMatchFrom(s, from) ==
    LET m == TagExec(s, from)
    IN  IF m = Null THEN <<>> ELSE <<m.text>> \o TagMatchFrom(s, m.lastIndex)

\* a use of TAG_REGEX.exec in place of String.prototype.match: one match,
\* searched from the lastIndex the previous use left behind
extractTagsSticky(text, lastIndex) ==
    LET m == TagExec(text, lastIndex)
    IN  IF m = Null THEN [tags |-> <<>>, lastIndex |-> 0]
        ELSE [tags |-> <<m.text>>, lastIndex |-> m.lastIndex]

\* every match kept, duplicates included
extractTagsAll(text, lastIndex) ==
    [tags |-> TagMatchFrom(text, 0), lastIndex |-> 0]

\* extractTags: the tags and the lastIndex TAG_REGEX is left with
extractTags(text, lastIndex) ==
    [tags |-> Unique(TagMatchFrom(text, 0)), lastIndex |-> 0]

H2Prefix == <<"#", "#", " ">>

H3Prefix == <<"#", "#", "#", " ">>

finalizeMeetingNote(partial, contentLines, file, date, lineEnd, lastIndex) ==
    LET content == Join(contentLines)
        fullText == partial.heading \o <<NL>> \o content
        ex == extractTags(fullText, lastIndex)
    IN  [note |-> [file |-> file, heading |-> partial.heading,
                   lineStart |-> partial.lineStart, lineEnd |-> lineEnd,
                   tags |-> ex.tags, content |-> content, date |-> date],
         lastIndex |-> ex.lastIndex]

\* currentNote?.heading: an open note with a non-empty heading
HasHeading(cn) == cn # Null /\ cn.heading # <<>>

\* `save current note if exists` with the boundary line counted into the note
SaveCurrentThrough(st, file, date, lineEnd) ==
    IF HasHeading(st.currentNote)
    THEN LET f == finalizeMeetingNote(st.currentNote, st.currentContent,
                                      file, date, lineEnd + 1, st.lastIndex)
         IN  [st EXCEPT !.meetingNotes = Append(@, f.note), !.lastIndex = f.lastIndex]
    ELSE st

\* `save current note if exists` pushing the note twice
SaveCurrentTwice(st, file, date, lineEnd) ==
    IF HasHeading(st.currentNote)
    THEN LET f == finalizeMeetingNote(st.currentNote, st.currentContent,
                                      file, date, lineEnd, st.lastIndex)
         IN  [st EXCEPT !.meetingNotes = Append(Append(@, f.note), f.note),
                        !.lastIndex = f.lastIndex]
    ELSE st

\* the scan state after `save current note if exists`
SaveCurrent(st, file, date, lineEnd) ==
    IF HasHeading(st.currentNote)
    THEN LET f == finalizeMeetingNote(st.currentNote, st.currentContent,
                                      file, date, lineEnd, st.lastIndex)
         IN  [st EXCEPT !.meetingNotes = Append(@, f.note), !.lastIndex = f.lastIndex]
    ELSE st

\* the header test done on lower-cased text
IsHeaderLineAnyCase(trimmedLine, headerLine) == ToLower(trimmedLine) = ToLower(headerLine)

\* trimmedLine === headerLine
IsHeaderLine(trimmedLine, headerLine) == trimmedLine = headerLine

\* a scan that never leaves the section
ExitsSectionNever(inNotesSection, trimmedLine, headerLine) == FALSE

\* `another H2` while inside the section
ExitsSection(inNotesSection, trimmedLine, headerLine) ==
    /\ inNotesSection
    /\ StartsWith(trimmedLine, H2Prefix)
    /\ trimmedLine # headerLine

\* the heading marker sliced off, the rest left untrimmed
NoteHeadingRaw(trimmedLine) == Slice(trimmedLine, 4)

\* trimmedLine.slice(4).trim()
NoteHeading(trimmedLine) == Trim(Slice(trimmedLine, 4))

\* the body of the for loop for line i
ParseLine(st, line, headerLine, file, date, i) ==
    LET trimmedLine == Trim(line)
    IN  IF IsHeaderLine(trimmedLine, headerLine)
        THEN [st EXCEPT !.inNotesSection = TRUE]
        ELSE IF ExitsSection(st.inNotesSection, trimmedLine, headerLine)
        THEN [SaveCurrent(st, file, date, i) EXCEPT
                  !.inNotesSection = FALSE, !.currentNote = Null,
                  !.currentContent = <<>>]
        ELSE IF ~st.inNotesSection
        THEN st
        ELSE IF StartsWith(trimmedLine, H3Prefix)
        THEN [SaveCurrent(st, file, date, i) EXCEPT
                  !.currentNote = [heading |-> NoteHeading(trimmedLine),
                                   lineStart |-> i],
                  !.currentContent = <<>>]
        ELSE IF st.currentNote # Null
        THEN [st EXCEPT !.currentContent = Append(@, line)]
        ELSE st

RECURSIVE ParseLoop(_, _, _, _, _, _)
ParseLoop(st, lines, headerLine, file, date, i) ==
    IF i >= Len(lines) THEN st
    ELSE CHOOSE r \in {ParseLoop(next, lines, headerLine, file, date, i + 1) :
                           next \in {ParseLine(st, lines[i + 1], headerLine,
                                               file, date, i)}} : TRUE

\* a scan that starts inside the section
InitialScanStateInside(lastIndex) ==
    [inNotesSection |-> TRUE, currentNote |-> Null, currentContent |-> <<>>,
     meetingNotes |-> <<>>, lastIndex |-> lastIndex]

\* the locals of parseDailyNote before the loop
InitialScanState(lastIndex) ==
    [inNotesSection |-> FALSE, currentNote |-> Null, currentContent |-> <<>>,
     meetingNotes |-> <<>>, lastIndex |-> lastIndex]

\* the last note ended on the last line's index
LastNoteEndIndex(lines) == Len(lines) - 1

\* the end boundary of the note still open after the loop: lines.length
LastNoteEnd(lines) == Len(lines)

(***************************************************************************)
(* The vault: files and folders, each with its parent path and its name.   *)
(***************************************************************************)
FileEntry(parent, name, content) ==
    [parent |-> parent, name |-> name, kind |-> "file", content |-> content]

FolderEntry(parent, name) ==
    [parent |-> parent, name |-> name, kind |-> "folder", content |-> <<>>]

\* vault.cachedRead(file)
cachedRead(f) == f.content

\* the TFile handle of a vault entry: what identifies the file
Handle(f) == [parent |-> f.parent, name |-> f.name]

\* TFile.basename: the name without its extension
Basename(name) ==
    IF \E i \in 2..Len(name) : name[i] = "."
    THEN LET d == CHOOSE i \in 2..Len(name) :
                      name[i] = "." /\ \A j \in (i + 1)..Len(name) : name[j] # "."
         IN  SubSeq(name, 1, d - 1)
    ELSE name

\* TFile.path
PathOf(f) == IF f.parent = <<>> THEN f.name ELSE f.parent \o <<"/">> \o f.name

\* parseDailyNote(file) on the text cachedRead returns: the notes, the lines
\* the text was split into and the lastIndex TAG_REGEX is left with
parseDailyNote(file, content, headerSetting, lastIndex) ==
    LET lines == Split(content)
        date == Basename(file.name)
        headerLine == Trim(headerSetting)
        st0 == InitialScanState(lastIndex)
        st1 == ParseLoop(st0, lines, headerLine, file, date, 0)
        st2 == SaveCurrent(st1, file, date, LastNoteEnd(lines))
    IN  [notes |-> st2.meetingNotes, lines |-> lines, lastIndex |-> st2.lastIndex]

(***************************************************************************)
(* The collection scanner: getDailyNoteFiles and getAllMeetingNotes.       *)
(***************************************************************************)
\* DAILY_NOTE_REGEX = /^\d{4}-\d{2}-\d{2}\.md$/, item by item: "\\d" is the
\* digit class, "\\." the literal dot, any other item the character itself
DAILY_NOTE_PATTERN ==
    <<"\\d", "\\d", "\\d", "\\d", "-", "\\d", "\\d", "-", "\\d", "\\d", "\\.", "m", "d">>

\* the pattern's dot left unescaped: it matches any character
ItemMatchesAnyDot(item, c) ==
    IF item = "\\d" THEN c \in Digit
    ELSE IF item = "\\." THEN TRUE
    ELSE c = item

ItemMatches(item, c) ==
    IF item = "\\d" THEN c \in Digit
    ELSE IF item = "\\." THEN c = "."
    ELSE c = item

\* DAILY_NOTE_REGEX.test(name): anchored at both ends, every item one character
DailyNoteRegexTest(name) ==
    /\ Len(name) = Len(DAILY_NOTE_PATTERN)
    /\ \A i \in 1..Len(name) : ItemMatches(DAILY_NOTE_PATTERN[i], name[i])

\* vault.getAbstractFileByPath(path)
getAbstractFileByPath(v, path) ==
    IF \E e \in v : PathOf(e) = path
    THEN CHOOSE e \in v : PathOf(e) = path
    ELSE Null

\* the entries of folder.children
ChildrenOf(v, folder) == {e \in v : e.parent = PathOf(folder)}

Reverse(o) == [k \in 1..Len(o) |-> o[Len(o) + 1 - k]]

\* the filter of getDailyNoteFiles
IsDailyNoteFile(e) == e.kind = "file" /\ DailyNoteRegexTest(e.name)

\* getDailyNoteFiles(), children being folder.children in the vault's order
getDailyNoteFiles(v, folderSetting, children) ==
    LET folder == getAbstractFileByPath(v, folderSetting)
    IN  IF folder = Null \/ folder.kind # "folder"
        THEN <<>>
        ELSE SelectSeq(children, IsDailyNoteFile)

\* the collation order of the characters of a date key
CollationOrder == <<"-", "0", "1", "2", "3", "4", "5", "6", "7", "8", "9">>

CharRank(c) == CHOOSE k \in 1..Len(CollationOrder) : CollationOrder[k] = c

\* a.localeCompare(b) on date keys: -1, 0 or 1
RECURSIVE localeCompare(_, _)
localeCompare(a, b) ==
    IF Len(a) = 0 /\ Len(b) = 0 THEN 0
    ELSE IF Len(a) = 0 THEN -1
    ELSE IF Len(b) = 0 THEN 1
    ELSE IF CharRank(a[1]) < CharRank(b[1]) THEN -1
    ELSE IF CharRank(a[1]) > CharRank(b[1]) THEN 1
    ELSE localeCompare(Tail(a), Tail(b))

\* the comparator with its operands exchanged: oldest first
ByDateAscending(a, b) == localeCompare(a.date, b.date)

\* the comparator (a, b) => b.date.localeCompare(a.date)
ByDateDescending(a, b) == localeCompare(b.date, a.date)

\* x inserted behind every element that does not sort after it
RECURSIVE InsertByDate(_, _)
InsertByDate(sorted, x) ==
    IF Len(sorted) = 0 THEN <<x>>
    ELSE IF ByDateDescending(sorted[Len(sorted)], x) <= 0
         THEN Append(sorted, x)
         ELSE Append(InsertByDate(SubSeq(sorted, 1, Len(sorted) - 1), x),
                     sorted[Len(sorted)])

\* Array.prototype.sort with ByDateDescending: a stable sort
RECURSIVE SortByDate(_)
SortByDate(notes) ==
    IF Len(notes) = 0 THEN <<>>
    ELSE InsertByDate(SortByDate(SubSeq(notes, 1, Len(notes) - 1)), notes[Len(notes)])

\* the loop of getAllMeetingNotes over files[k..]
RECURSIVE ParseFiles(_, _, _, _, _)
ParseFiles(files, k, headerSetting, acc, lastIndex) ==
    IF k > Len(files) THEN [notes |-> acc, lastIndex |-> lastIndex]
    ELSE LET r == parseDailyNote(Handle(files[k]), cachedRead(files[k]),
                                 headerSetting, lastIndex)
         IN  ParseFiles(files, k + 1, headerSetting, acc \o r.notes, r.lastIndex)

\* getAllMeetingNotes(): the files listed, the notes and TAG_REGEX's lastIndex
getAllMeetingNotes(v, s, children, lastIndex) ==
    LET files == getDailyNoteFiles(v, s.dailyNotesFolder, children)
    IN  CHOOSE all \in {[files |-> files, notes |-> SortByDate(r.notes),
                          lastIndex |-> r.lastIndex] :
                             r \in {ParseFiles(files, 1, s.meetingNotesHeader, <<>>,
                                               lastIndex)}} : TRUE

(***************************************************************************)
(* The documents and settings the model explores.                          *)
(***************************************************************************)
\* "## N": the default-shaped parent heading
LineParent == <<"#", "#", " ", "N">>

\* "## n": another level-2 heading, the parent heading in another case
LineOtherH2 == <<"#", "#", " ", "n">>

\* "# X": a level-1 heading
LineH1 == <<"#", " ", "X">>

\* " ###  B ": a child heading with surrounding white space
LineChildB == <<" ", "#", "#", "#", " ", " ", "B", " ">>

\* "### Standup #team #daily-sync"
LineStandup == <<"#", "#", "#", " ", "S", "t", "a", "n", "d", "u", "p", " ",
                 "#", "t", "e", "a", "m", " ",
                 "#", "d", "a", "i", "l", "y", "-", "s", "y", "n", "c">>

\* " x #team #t/u #team": a body line
LineBody == <<" ", "x", " ", "#", "t", "e", "a", "m", " ", "#", "t", "/", "u",
              " ", "#", "t", "e", "a", "m">>

LineVocab == {LineParent, LineOtherH2, LineH1, LineChildB, LineStandup, LineBody}

\* the sequences of 1..n lines of the vocabulary
RECURSIVE LineSeqs(_)
LineSeqs(n) ==
    IF n = 0 THEN {<<>>}
    ELSE LET shorter == LineSeqs(n - 1)
         IN  shorter \cup {Append(ls, l) : ls \in {x \in shorter : Len(x) = n - 1},
                                            l \in LineVocab}

Docs == {Join(ls) : ls \in LineSeqs(MaxLines) \ {<<>>}}

\* DEFAULT_SETTINGS.dailyNotesFolder, "_daily"
DefaultFolder == <<"_", "d", "a", "i", "l", "y">>

\* settings.meetingNotesHeader: the default shape, a level-3 parent with the
\* white space the parser trims, and a level-1 parent
Headers == {LineParent, LineChildB, LineH1}

\* "2024-01-15.md"
Name0115 == <<"2", "0", "2", "4", "-", "0", "1", "-", "1", "5", ".", "m", "d">>

(***************************************************************************)
(* The vaults and settings the collection model explores.                  *)
(***************************************************************************)
Name0116 == <<"2", "0", "2", "4", "-", "0", "1", "-", "1", "6", ".", "m", "d">>

\* a folder whose name has the shape of a daily note
Name0117 == <<"2", "0", "2", "4", "-", "0", "1", "-", "1", "7", ".", "m", "d">>

Name0118 == <<"2", "0", "2", "4", "-", "0", "1", "-", "1", "8", ".", "m", "d">>

Name0119 == <<"2", "0", "2", "4", "-", "0", "1", "-", "1", "9", ".", "m", "d">>

\* names the pattern rejects: a character for the dot, a prefix, a suffix, a
\* one-digit month
BadDot == <<"2", "0", "2", "4", "-", "0", "1", "-", "1", "5", "x", "m", "d">>

BadPrefix == <<"x", "2", "0", "2", "4", "-", "0", "1", "-", "1", "5", ".", "m", "d">>

BadSuffix == <<"2", "0", "2", "4", "-", "0", "1", "-", "1", "5", ".", "m", "d", "x">>

BadMonth == <<"2", "0", "2", "4", "-", "1", "-", "1", "5", ".", "m", "d">>

BadNames == {BadDot, BadPrefix, BadSuffix, BadMonth}

\* a folder that does not exist
MissingFolder == <<"j", "o", "u", "r", "n", "a", "l">>

SubFolder == DefaultFolder \o <<"/">> \o Name0117

DocStandup == Join(<<LineParent, LineStandup, LineBody>>)

DocTwoNotes == Join(<<LineParent, LineChildB, LineStandup>>)

DocOneNote == Join(<<LineParent, LineChildB>>)

RootFile == FileEntry(<<>>, Name0119, DocOneNote)

\* the entries of an existing daily notes folder: the files of `good`, a file
\* for every rejected name, a sub-folder and a daily note inside it
FolderVault(good) ==
    {RootFile, FolderEntry(<<>>, DefaultFolder),
     FolderEntry(DefaultFolder, Name0117),
     FileEntry(SubFolder, Name0118, DocOneNote)}
    \cup {FileEntry(DefaultFolder, bad, DocOneNote) : bad \in BadNames}
    \cup good

Vaults ==
    {{RootFile}}
    \cup {FolderVault(good) :
            good \in SUBSET {FileEntry(DefaultFolder, Name0115, DocStandup),
                             FileEntry(DefaultFolder, Name0116, DocTwoNotes)}}

\* "tags.md" and "more.md"
NameTags == <<"t", "a", "g", "s", ".", "m", "d">>

NameMore == <<"m", "o", "r", "e", ".", "m", "d">>

\* folder.children lists the entries of a folder in the order the vault
\* keeps them: the model takes the names in the order of Listing or in the
\* reverse order
Listing ==
    <<BadDot, Name0115, BadPrefix, Name0117, Name0116, BadSuffix, BadMonth,
      Name0118, Name0119, NameTags, NameMore>>

ChildOrders(S) ==
    LET IsThere(name) == \E e \in S : e.name = name
        names == SelectSeq(Listing, IsThere)
        entries == [k \in 1..Len(names) |-> CHOOSE e \in S : e.name = names[k]]
    IN  {entries, Reverse(entries)}

\* settings.dailyNotesFolder: the default, a path that does not exist, the
\* path of a file, a sub-folder
FolderSettings ==
    {DefaultFolder, MissingFolder, DefaultFolder \o <<"/">> \o Name0115, SubFolder}

VaultHeaders == {LineParent, LineChildB}

\* the parser on one document
InitParse ==
    /\ \E h \in Headers :
           settings = [dailyNotesFolder |-> DefaultFolder, meetingNotesHeader |-> h]
    /\ \E d \in Docs :
           vault = {FolderEntry(<<>>, DefaultFolder),
                    FileEntry(DefaultFolder, Name0115, d)}
    /\ tagLastIndex = 0
    /\ parsed = Null
    /\ prevParsed = Null
    /\ otherQuery = FALSE
    /\ allNotes = Null
    /\ PanelIdle
    /\ ViewIdle

\* a call of parseDailyNote(file) by the panel, which tests the file name
\* before it calls: `parsed` keeps what it read and returned,
\* `prevParsed` the call before it, `otherQuery` whether another query of the
\* parser ran between the two
ParseDailyNote(f) ==
    /\ f \in vault /\ f.kind = "file"
    /\ DailyNoteRegexTest(f.name)
    /\ \E r \in {parseDailyNote(Handle(f), cachedRead(f),
                                settings.meetingNotesHeader, tagLastIndex)} :
           /\ parsed' = [file |-> Handle(f), content |-> cachedRead(f),
                         lines |-> r.lines,
                         header |-> settings.meetingNotesHeader, notes |-> r.notes,
                         afterQuery |-> otherQuery]
           /\ tagLastIndex' = r.lastIndex
    /\ prevParsed' = parsed
    /\ otherQuery' = FALSE
    /\ UNCHANGED <<settings, vault, allNotes, panelVars>>
    /\ UNCHANGED viewVars

NextParse == \E f \in vault : ParseDailyNote(f)

SpecParse == InitParse /\ [][NextParse]_vars

Init ==
    /\ \E p \in FolderSettings :
           settings = [dailyNotesFolder |-> p, meetingNotesHeader |-> LineParent]
    /\ vault \in Vaults
    /\ tagLastIndex = 0
    /\ parsed = Null
    /\ prevParsed = Null
    /\ otherQuery = FALSE
    /\ allNotes = Null
    /\ PanelIdle
    /\ ViewIdle

\* a call of getAllMeetingNotes(): `allNotes` keeps the settings it ran with,
\* the files it listed and the notes it returned
GetAllMeetingNotes ==
    /\ LET folder == getAbstractFileByPath(vault, settings.dailyNotesFolder)
       IN  \E children \in (IF folder = Null THEN {<<>>}
                            ELSE ChildOrders(ChildrenOf(vault, folder))) :
           \E r \in {getAllMeetingNotes(vault, settings, children, tagLastIndex)} :
               /\ allNotes' = [folder |-> settings.dailyNotesFolder,
                               header |-> settings.meetingNotesHeader,
                               files |-> [k \in 1..Len(r.files) |-> Handle(r.files[k])],
                               notes |-> r.notes]
               /\ tagLastIndex' = r.lastIndex
    /\ otherQuery' = TRUE
    /\ UNCHANGED <<settings, vault, parsed, prevParsed, panelVars>>
    /\ UNCHANGED viewVars

\* the settings tab's onChange of `Meeting notes header`
SetMeetingNotesHeader(h) ==
    /\ h # settings.meetingNotesHeader
    /\ settings' = [settings EXCEPT !.meetingNotesHeader = h]
    /\ UNCHANGED <<vault, tagLastIndex, parsed, prevParsed, otherQuery, allNotes,
                   panelVars>>
    /\ UNCHANGED viewVars

Next ==
    \/ \E f \in vault : ParseDailyNote(f)
    \/ GetAllMeetingNotes
    \/ \E h \in VaultHeaders : SetMeetingNotesHeader(h)

Spec == Init /\ [][Next]_vars

(***************************************************************************)
(* The queries derived from the collection: untagged notes, the note at    *)
(* the cursor and related notes.                                           *)
(***************************************************************************)
\* a filter that keeps every note
KeepsEveryNote(note) == TRUE

\* note.tags.length === 0
IsUntagged(note) == Len(note.tags) = 0

\* getUntaggedMeetingNotes(): the collection it read and what it returns
getUntaggedMeetingNotes(v, s, children, lastIndex) ==
    CHOOSE r \in {[all |-> all.notes, notes |-> SelectSeq(all.notes, IsUntagged),
                    lastIndex |-> all.lastIndex] :
                       all \in {getAllMeetingNotes(v, s, children, lastIndex)}} : TRUE

\* the span test with the end line counted in
CursorInSpanInclusive(note, cursorLine) ==
    cursorLine >= note.lineStart /\ cursorLine <= note.lineEnd

\* cursorLine >= note.lineStart && cursorLine < note.lineEnd
CursorInSpan(note, cursorLine) ==
    cursorLine >= note.lineStart /\ cursorLine < note.lineEnd

\* the loop `for (const note of notes)` from notes[k] on
RECURSIVE FirstAtCursor(_, _, _)
FirstAtCursor(notes, k, cursorLine) ==
    IF k > Len(notes) THEN Null
    ELSE IF CursorInSpan(notes[k], cursorLine) THEN notes[k]
    ELSE FirstAtCursor(notes, k + 1, cursorLine)

\* getMeetingNoteAtCursor(file, cursorLine)
getMeetingNoteAtCursor(f, cursorLine, headerSetting, lastIndex) ==
    IF ~DailyNoteRegexTest(f.name)
    THEN [note |-> Null, lastIndex |-> lastIndex]
    ELSE LET r == parseDailyNote(Handle(f), cachedRead(f), headerSetting, lastIndex)
         IN  [note |-> FirstAtCursor(r.notes, 1, cursorLine),
              lastIndex |-> r.lastIndex]

\* a tag test that ignores case
TagSetHasAnyCase(tags, t) == \E j \in 1..Len(tags) : ToLower(tags[j]) = ToLower(t)

\* tagSet.has(t) for tagSet = new Set(tags)
TagSetHas(tags, t) == \E j \in 1..Len(tags) : tags[j] = t

\* other.file.path === note.file.path && other.lineStart === note.lineStart
IsSameNote(other, note) ==
    PathOf(other.file) = PathOf(note.file) /\ other.lineStart = note.lineStart

\* other.tags.some((tag) => tagSet.has(tag))
SharesTag(other, tags) == \E k \in 1..Len(other.tags) : TagSetHas(tags, other.tags[k])

\* a.tags.filter((t) => tagSet.has(t)).length
SharedCount(a, tags) == Cardinality({k \in 1..Len(a.tags) : TagSetHas(tags, a.tags[k])})

\* a comparator that looks at the date only
ByRelevanceDateOnly(a, b, tags) == localeCompare(b.date, a.date)

\* the comparator of the related notes: shared tags descending, then date
ByRelevance(a, b, tags) ==
    IF SharedCount(b, tags) # SharedCount(a, tags)
    THEN SharedCount(b, tags) - SharedCount(a, tags)
    ELSE localeCompare(b.date, a.date)

RECURSIVE InsertByRelevance(_, _, _)
InsertByRelevance(sorted, x, tags) ==
    IF Len(sorted) = 0 THEN <<x>>
    ELSE IF ByRelevance(sorted[Len(sorted)], x, tags) <= 0
         THEN Append(sorted, x)
         ELSE Append(InsertByRelevance(SubSeq(sorted, 1, Len(sorted) - 1), x, tags),
                     sorted[Len(sorted)])

\* Array.prototype.sort with ByRelevance: a stable sort
RECURSIVE SortByRelevance(_, _)
SortByRelevance(notes, tags) ==
    IF Len(notes) = 0 THEN <<>>
    ELSE InsertByRelevance(SortByRelevance(SubSeq(notes, 1, Len(notes) - 1), tags),
                           notes[Len(notes)], tags)

\* getRelatedMeetingNotes(note)
getRelatedMeetingNotes(v, s, children, note, lastIndex) ==
    IF Len(note.tags) = 0
    THEN [notes |-> <<>>, lastIndex |-> lastIndex]
    ELSE LET Keep(other) == ~IsSameNote(other, note) /\ SharesTag(other, note.tags)
         IN  CHOOSE r \in {[notes |-> SortByRelevance(SelectSeq(all.notes, Keep),
                                                      note.tags),
                            lastIndex |-> all.lastIndex] :
                               all \in {getAllMeetingNotes(v, s, children, lastIndex)}} :
                 TRUE

(***************************************************************************)
(* The vaults the panel model explores.                                    *)
(***************************************************************************)
\* "x"
LinePlain == <<"x">>

\* "### E #team"
LineChildE == <<"#", "#", "#", " ", "E", " ", "#", "t", "e", "a", "m">>

\* "### C #t/u"
LineChildC == <<"#", "#", "#", " ", "C", " ", "#", "t", "/", "u">>

\* "### D #Team"
LineChildD == <<"#", "#", "#", " ", "D", " ", "#", "T", "e", "a", "m">>

\* text above the parent heading, text between it and the first child, a
\* child with one body line, a closing heading, a child after the close
DocCursor ==
    Join(<<LinePlain, LineParent, LinePlain, LineChildB, LinePlain, LineOtherH2,
           LineChildB>>)

DocRootNote == Join(<<LineParent, LineChildE>>)

DocTagCases == Join(<<LineParent, LineChildC, LineChildD>>)

\* daily notes of four days in the folder, a file the pattern rejects, and a
\* daily-note-named file in the vault's root
RelatedVault ==
    {FileEntry(<<>>, Name0119, DocRootNote),
     FolderEntry(<<>>, DefaultFolder),
     FileEntry(DefaultFolder, Name0115, DocStandup),
     FileEntry(DefaultFolder, Name0116, DocTwoNotes),
     FileEntry(DefaultFolder, Name0117, DocTagCases),
     FileEntry(DefaultFolder, Name0118, DocCursor),
     FileEntry(DefaultFolder, BadDot, DocOneNote)}

QueryVaults ==
    {RelatedVault,
     FolderVault({FileEntry(DefaultFolder, Name0115, DocStandup),
                  FileEntry(DefaultFolder, Name0116, DocTwoNotes)})}

\* folder.children of the configured folder in one of the vault's orders
FolderListings ==
    LET folder == getAbstractFileByPath(vault, settings.dailyNotesFolder)
    IN  IF folder = Null THEN {<<>>} ELSE ChildOrders(ChildrenOf(vault, folder))

\* noteChanged: note?.file.path or note?.lineStart differs from the panel's
\* note, an absent note giving undefined for both
NoteChanged(note, current) ==
    IF note = Null \/ current = Null
    THEN (note = Null) # (current = Null)
    ELSE \/ PathOf(note.file) # PathOf(current.file)
         \/ note.lineStart # current.lineStart

InitQuery ==
    /\ settings = [dailyNotesFolder |-> DefaultFolder, meetingNotesHeader |-> LineParent]
    /\ vault \in QueryVaults
    /\ tagLastIndex = 0
    /\ parsed = Null
    /\ prevParsed = Null
    /\ otherQuery = FALSE
    /\ allNotes = Null
    /\ PanelIdle
    /\ ViewIdle

\* checkCursorPosition with the cursor on line `line` of the open file f: the
\* call of getMeetingNoteAtCursor and the update of the panel's note
GetMeetingNoteAtCursor(f, line) ==
    /\ f \in vault /\ f.kind = "file"
    /\ line \in 0..(Len(Split(cachedRead(f))) - 1)
    /\ \E r \in {getMeetingNoteAtCursor(f, line, settings.meetingNotesHeader,
                                        tagLastIndex)} :
           /\ query' = [kind |-> "cursor", file |-> Handle(f), line |-> line,
                        header |-> settings.meetingNotesHeader, result |-> r.note]
           /\ currentNote' =
                  IF NoteChanged(r.note, currentNote) THEN r.note ELSE currentNote
           /\ tagLastIndex' = r.lastIndex
    /\ UNCHANGED <<settings, vault, parsed, prevParsed, otherQuery, allNotes,
                   linkLastIndex, todoRuns, lastTodo>>
    /\ UNCHANGED viewVars

\* the panel's call of getUntaggedMeetingNotes()
GetUntaggedMeetingNotes ==
    /\ \E children \in FolderListings :
       \E r \in {getUntaggedMeetingNotes(vault, settings, children, tagLastIndex)} :
           /\ query' = [kind |-> "untagged", folder |-> settings.dailyNotesFolder,
                        header |-> settings.meetingNotesHeader,
                        all |-> r.all, result |-> r.notes]
           /\ tagLastIndex' = r.lastIndex
    /\ UNCHANGED <<settings, vault, parsed, prevParsed, otherQuery, allNotes,
                   currentNote, linkLastIndex, todoRuns, lastTodo>>
    /\ UNCHANGED viewVars

\* a call of getRelatedMeetingNotes(this.currentNote)
GetRelatedMeetingNotes ==
    /\ currentNote # Null
    /\ \E children \in FolderListings :
       \E r \in {getRelatedMeetingNotes(vault, settings, children, currentNote,
                                        tagLastIndex)} :
           /\ query' = [kind |-> "related", folder |-> settings.dailyNotesFolder,
                        header |-> settings.meetingNotesHeader,
                        note |-> currentNote, result |-> r.notes]
           /\ tagLastIndex' = r.lastIndex
    /\ UNCHANGED <<settings, vault, parsed, prevParsed, otherQuery, allNotes,
                   currentNote, linkLastIndex, todoRuns, lastTodo>>
    /\ UNCHANGED viewVars

NextQuery ==
    \/ \E f \in vault, line \in 0..(2 * MaxLines) : GetMeetingNoteAtCursor(f, line)
    \/ GetUntaggedMeetingNotes
    \/ GetRelatedMeetingNotes
    \/ \E h \in VaultHeaders : SetMeetingNotesHeader(h)

SpecQuery == InitQuery /\ [][NextQuery]_vars

(***************************************************************************)
(* todo-service.ts: the open checklist items of the vault and the items    *)
(* related to a meeting note.                                              *)
(***************************************************************************)
\* a line terminator, which `.` of a regular expression does not match
HasCR(s) == \E i \in 1..Len(s) : s[i] = "\r"

\* TODO_REGEX = /^[\s]*-\s*\[\s*\]\s*(.+)$/ on a line: the captured group,
\* or Null.  The final \s* gives one character back when nothing else is
\* left for (.+)
TodoRegexMatch(line) ==
    LET n == Len(line)
        p1 == SkipSpace(line, 1)
        p2 == SkipSpace(line, p1 + 1)
        p3 == SkipSpace(line, p2 + 1)
        q == SkipSpace(line, p3 + 1)
    IN  IF p1 > n \/ line[p1] # "-" THEN Null
        ELSE IF p2 > n \/ line[p2] # "[" THEN Null
        ELSE IF p3 > n \/ line[p3] # "]" THEN Null
        ELSE IF q <= n
             THEN IF HasCR(SubSeq(line, q, n)) THEN Null
                  ELSE [group |-> SubSeq(line, q, n)]
        ELSE IF p3 < n /\ line[n] # "\r" THEN [group |-> <<line[n]>>]
        ELSE Null

\* the last index of the run of "#" that starts at i
RECURSIVE HashRunEnd(_, _)
HashRunEnd(s, i) ==
    IF i + 1 <= Len(s) /\ s[i + 1] = "#" THEN HashRunEnd(s, i + 1) ELSE i

\* trimmed.match(/^#+\s+(.+)$/): the captured group, or Null
HeadingRegexMatch(trimmed) ==
    IF Len(trimmed) = 0 \/ trimmed[1] # "#" THEN Null
    ELSE LET h == HashRunEnd(trimmed, 1)
             q == SkipSpace(trimmed, h + 1)
         IN  IF q = h + 1 \/ q > Len(trimmed) THEN Null
             ELSE IF HasCR(SubSeq(trimmed, q, Len(trimmed))) THEN Null
             ELSE [group |-> SubSeq(trimmed, q, Len(trimmed))]

\* the loop of getTodosFromFile from line i on (0-indexed)
RECURSIVE TodoLines(_, _, _, _, _)
TodoLines(file, lines, i, currentHeading, todos) ==
    IF i >= Len(lines) THEN todos
    ELSE LET line == lines[i + 1]
             trimmed == Trim(line)
             hm == IF StartsWith(trimmed, <<"#">>) THEN HeadingRegexMatch(trimmed)
                   ELSE Null
             heading == IF hm # Null THEN hm.group ELSE currentHeading
             tm == TodoRegexMatch(line)
         IN  CHOOSE r \in {TodoLines(file, lines, i + 1, next.heading, next.todos) :
                 next \in {[heading |-> heading,
                            todos |-> IF tm # Null
                                      THEN Append(todos,
                                                  [text |-> Trim(tm.group),
                                                   file |-> file,
                                                   heading |-> heading, line |-> i])
                                      ELSE todos]}} : TRUE

\* getTodosFromFile(file)
getTodosFromFile(f) ==
    CHOOSE todos \in {TodoLines(Handle(f), lines, 0, Null, <<>>) :
                          lines \in {Split(cachedRead(f))}} : TRUE

\* TFile.extension
Extension(name) == SubSeq(name, Len(Basename(name)) + 2, Len(name))

\* vault.getMarkdownFiles(): the files with extension "md", in the order the
\* vault keeps them
getMarkdownFiles(v) ==
    LET md == {e \in v : e.kind = "file" /\ Extension(e.name) = <<"m", "d">>}
        IsThere(name) == \E e \in md : e.name = name
        names == SelectSeq(Listing, IsThere)
    IN  [k \in 1..Len(names) |-> CHOOSE e \in md : e.name = names[k]]

RECURSIVE TodosOfFiles(_, _)
TodosOfFiles(files, k) ==
    IF k > Len(files) THEN <<>>
    ELSE getTodosFromFile(files[k]) \o TodosOfFiles(files, k + 1)

\* getAllTodos()
getAllTodos(v) ==
    CHOOSE todos \in {TodosOfFiles(files, 1) : files \in {getMarkdownFiles(v)}} : TRUE

\* metadataCache.getFileCache(file): its tags, one entry for every hashtag of
\* the document, in document order; no cache when the document has none
CacheTags(v, file) ==
    LET e == CHOOSE x \in v : x.kind = "file" /\ Handle(x) = file
        found == TagMatchFrom(cachedRead(e), 0)
    IN  IF found = <<>> THEN Null ELSE [tags |-> found]

\* getFileTags(file)
getFileTags(v, file) ==
    CHOOSE tags \in {IF cache = Null THEN <<>> ELSE cache.tags :
                        cache \in {CacheTags(v, file)}} : TRUE

\* the last index of the run, starting at p, of characters outside `excl`;
\* p - 1 when the run is empty
RECURSIVE RunOutside(_, _, _)
RunOutside(s, p, excl) ==
    IF p <= Len(s) /\ s[p] \notin excl THEN RunOutside(s, p + 1, excl) ELSE p - 1

\* LINK_REGEX = /\[\[([^\]|]+)(?:\|[^\]]+)?\]\]/g matched at index i
\* (1-based): the match, its group 1 and the lastIndex it leaves, or Null
LinkMatchAt(s, i) ==
    IF i + 1 > Len(s) \/ s[i] # "[" \/ s[i + 1] # "[" THEN Null
    ELSE LET r == RunOutside(s, i + 2, {"]", "|"})
             a == RunOutside(s, r + 2, {"]"})
             Closes(e) == e + 2 <= Len(s) /\ s[e + 1] = "]" /\ s[e + 2] = "]"
         IN  IF r < i + 2 THEN Null
             ELSE IF r + 1 <= Len(s) /\ s[r + 1] = "|"
                  THEN IF a >= r + 2 /\ Closes(a)
                       THEN [text |-> SubSeq(s, i, a + 2), target |-> SubSeq(s, i + 2, r),
                             lastIndex |-> a + 2]
                       ELSE Null
             ELSE IF Closes(r)
                  THEN [text |-> SubSeq(s, i, r + 2), target |-> SubSeq(s, i + 2, r),
                        lastIndex |-> r + 2]
             ELSE Null

\* LINK_REGEX.exec(s) with lastIndex = from: the leftmost match at or after it
LinkExec(s, from) ==
    LET starts == {i \in (from + 1)..Len(s) : LinkMatchAt(s, i) # Null}
    IN  IF starts = {} THEN Null
        ELSE LinkMatchAt(s, CHOOSE x \in starts : \A y \in starts : x <= y)

RECURSIVE LinkMatchFrom(_, _)
LinkMatchFrom(s, from) ==
    LET m == LinkExec(s, from)
    IN  IF m = Null THEN <<>> ELSE <<m.text>> \o LinkMatchFrom(s, m.lastIndex)

\* a match that starts at the lastIndex the pattern was left with
LinkMatchAllSticky(s, lastIndex) ==
    [links |-> LinkMatchFrom(s, lastIndex), lastIndex |-> 0]

\* s.match(LINK_REGEX): lastIndex is set to 0 before the search and is 0
\* after it; `links` is empty where match returns null
LinkMatchAll(s, lastIndex) ==
    [links |-> LinkMatchFrom(s, 0), lastIndex |-> 0]

\* String.prototype.endsWith
EndsWith(s, p) == Len(p) <= Len(s) /\ SubSeq(s, Len(s) - Len(p) + 1, Len(s)) = p

\* a target test without the path suffix rule
LinkTargetIsBasename(linkTarget, dailyNoteBasename) == linkTarget = dailyNoteBasename

\* linkTarget === dailyNoteBasename || linkTarget.endsWith(`/${dailyNoteBasename}`)
LinkTargetMatches(linkTarget, dailyNoteBasename) ==
    \/ linkTarget = dailyNoteBasename
    \/ EndsWith(linkTarget, <<"/">> \o dailyNoteBasename)

\* the loop `for (const link of links)` from links[k] on: whether it returned
\* true, and the lastIndex LINK_REGEX is left with
RECURSIVE LinkLoop(_, _, _, _)
LinkLoop(links, k, dailyNoteBasename, lastIndex) ==
    IF k > Len(links) THEN [found |-> FALSE, lastIndex |-> lastIndex]
    ELSE LET linkMatch == LinkMatchAll(links[k], lastIndex)
             match == LinkExec(links[k], 0)
         IN  IF linkMatch.links = <<>>
             THEN LinkLoop(links, k + 1, dailyNoteBasename, linkMatch.lastIndex)
             ELSE IF match = Null
             THEN LinkLoop(links, k + 1, dailyNoteBasename, 0)
             ELSE IF LinkTargetMatches(match.target, dailyNoteBasename)
             THEN [found |-> TRUE, lastIndex |-> match.lastIndex]
             ELSE LinkLoop(links, k + 1, dailyNoteBasename, match.lastIndex)

\* String.prototype.includes
Includes(s, p) == \E i \in 0..(Len(s) - Len(p)) : SubSeq(s, i + 1, i + Len(p)) = p

\* the heading test without lower-casing
MentionsHeadingExact(todo, note) == Includes(todo.text, note.heading)

\* todoLower.includes(headingLower)
MentionsHeading(todo, note) == Includes(ToLower(todo.text), ToLower(note.heading))

\* todoHasLinkToNote(todo, note): the result and the lastIndex of LINK_REGEX
todoHasLinkToNote(todo, note, lastIndex) ==
    LET dailyNoteBasename == Basename(note.file.name)
        links == LinkMatchAll(todo.text, lastIndex)
        loop == LinkLoop(links.links, 1, dailyNoteBasename, links.lastIndex)
    IN  IF loop.found THEN [result |-> TRUE, lastIndex |-> loop.lastIndex]
        ELSE [result |-> MentionsHeading(todo, note), lastIndex |-> 0]

\* noteTagsOriginal.get(lower): the last tag of the note with that lower case
OriginalTag(noteTags, lower) ==
    LET I == {k \in 1..Len(noteTags) : ToLower(noteTags[k]) = lower}
    IN  noteTags[CHOOSE k \in I : \A j \in I : j <= k]

\* the loop `for (const tag of fileTags)` from fileTags[k] on
RECURSIVE MatchingTags(_, _, _)
MatchingTags(fileTags, k, noteTags) ==
    IF k > Len(fileTags) THEN <<>>
    ELSE LET lower == ToLower(fileTags[k])
             rest == MatchingTags(fileTags, k + 1, noteTags)
         IN  IF \E j \in 1..Len(noteTags) : ToLower(noteTags[j]) = lower
             THEN <<OriginalTag(noteTags, lower)>> \o rest
             ELSE rest

\* a same-file test that never holds
IsSameFileNever(todo, note) == FALSE

\* todo.file.path === note.file.path
IsSameFile(todo, note) == PathOf(todo.file) = PathOf(note.file)

\* the body of the loop of getTodosForMeetingNote for a todo of another
\* file: the related items after it and the lastIndex of LINK_REGEX
ClassifyTodo(v, todo, note, relatedTodos, lastIndex) ==
    LET matchingTags == IF Len(note.tags) > 0
                        THEN MatchingTags(getFileTags(v, todo.file), 1, note.tags)
                        ELSE <<>>
        link == IF Len(matchingTags) > 0
                THEN [result |-> FALSE, lastIndex |-> lastIndex]
                ELSE todoHasLinkToNote(todo, note, lastIndex)
        relationReason == IF Len(matchingTags) > 0 THEN "shared tag"
                          ELSE IF link.result THEN "linked"
                          ELSE ""
    IN  [related |-> IF relationReason # ""
                     THEN Append(relatedTodos,
                                 [text |-> todo.text, file |-> todo.file,
                                  heading |-> todo.heading, line |-> todo.line,
                                  relationReason |-> relationReason,
                                  matchingTags |-> matchingTags])
                     ELSE relatedTodos,
         lastIndex |-> link.lastIndex]

\* the loop of getTodosForMeetingNote from allTodos[j] on, run to its end
RECURSIVE TodoLoop(_, _, _, _, _, _)
TodoLoop(v, allTodos, j, note, relatedTodos, lastIndex) ==
    IF j > Len(allTodos) THEN [related |-> relatedTodos, lastIndex |-> lastIndex]
    ELSE IF IsSameFile(allTodos[j], note)
    THEN TodoLoop(v, allTodos, j + 1, note, relatedTodos, lastIndex)
    ELSE CHOOSE r \in {TodoLoop(v, allTodos, j + 1, note, c.related, c.lastIndex) :
                           c \in {ClassifyTodo(v, allTodos[j], note, relatedTodos,
                                               lastIndex)}} : TRUE

\* getTodosForMeetingNote(note) run without interruption
getTodosForMeetingNote(v, note, lastIndex) ==
    CHOOSE r \in {TodoLoop(v, allTodos, 1, note, <<>>, lastIndex) :
                      allTodos \in {getAllTodos(v)}} : TRUE

\* the loop from allTodos[j] on up to its next await: `await getFileTags`
\* is reached for a todo of another file when the note has tags
RECURSIVE TodoUntilAwait(_, _, _, _, _, _)
TodoUntilAwait(v, allTodos, j, note, relatedTodos, lastIndex) ==
    IF j > Len(allTodos)
    THEN [done |-> TRUE, k |-> j, related |-> relatedTodos, lastIndex |-> lastIndex]
    ELSE IF IsSameFile(allTodos[j], note)
    THEN TodoUntilAwait(v, allTodos, j + 1, note, relatedTodos, lastIndex)
    ELSE IF Len(note.tags) > 0
    THEN [done |-> FALSE, k |-> j, related |-> relatedTodos, lastIndex |-> lastIndex]
    ELSE CHOOSE r \in {TodoUntilAwait(v, allTodos, j + 1, note, c.related,
                                      c.lastIndex) :
                           c \in {ClassifyTodo(v, allTodos[j], note, relatedTodos,
                                               lastIndex)}} : TRUE

(***************************************************************************)
(* The vault the task linkage model explores.                              *)
(***************************************************************************)
\* "- [ ] own #team [[2024-01-15]]"
LineOwnTodo ==
    <<"-", " ", "[", " ", "]", " ", "o", "w", "n", " ", "#", "t", "e",
          "a", "m", " ", "[", "[", "2", "0", "2", "4", "-", "0", "1",
          "-", "1", "5", "]", "]">>

\* "- [ ] b own"
LineOwnTodoB ==
    <<"-", " ", "[", " ", "]", " ", "b", " ", "o", "w", "n">>

\* "# Work"
LineWork == <<"#", " ", "W", "o", "r", "k">>

\* "-[] t [[2024-01-15]] #Team #team"
LineTaggedTodo ==
    <<"-", "[", "]", " ", "t", " ", "[", "[", "2", "0", "2", "4", "-",
          "0", "1", "-", "1", "5", "]", "]", " ", "#", "T", "e", "a",
          "m", " ", "#", "t", "e", "a", "m">>

\* "- [ ] [[2024-01-15"
LineBrokenLink ==
    <<"-", " ", "[", " ", "]", " ", "[", "[", "2", "0", "2", "4", "-",
          "0", "1", "-", "1", "5">>

\* "  - [ ]  call bob "
LineMention ==
    <<" ", " ", "-", " ", "[", " ", "]", " ", " ", "c", "a", "l", "l",
          " ", "b", "o", "b", " ">>

\* "- [x] [[2024-01-15]]"
LineDoneTodo ==
    <<"-", " ", "[", "x", "]", " ", "[", "[", "2", "0", "2", "4", "-",
          "0", "1", "-", "1", "5", "]", "]">>

\* "- [ ] [[2024-01-15]]"
LineLinkTodo ==
    <<"-", " ", "[", " ", "]", " ", "[", "[", "2", "0", "2", "4", "-",
          "0", "1", "-", "1", "5", "]", "]">>

\* "- [ ] z [[a/2024-01-15|z]]"
LinePathLinkTodo ==
    <<"-", " ", "[", " ", "]", " ", "z", " ", "[", "[", "a", "/", "2",
          "0", "2", "4", "-", "0", "1", "-", "1", "5", "|", "z", "]", "]">>

DocOwnTodo == Join(<<LineParent, LineStandup, LineOwnTodo>>)

DocOwnTodoB == Join(<<LineParent, LineChildB, LineOwnTodoB>>)

DocTaggedTodo == Join(<<LineWork, LineTaggedTodo>>)

DocLinkTodos ==
    Join(<<LineBrokenLink, LineMention, LineDoneTodo, LineLinkTodo, LinePathLinkTodo>>)

\* two daily notes with a checklist item of their own, a document that
\* carries the tag of the first note in two cases, and a document without
\* tags whose items link to the first note or mention the second
TodoVault ==
    {FolderEntry(<<>>, DefaultFolder),
     FileEntry(DefaultFolder, Name0115, DocOwnTodo),
     FileEntry(DefaultFolder, Name0116, DocOwnTodoB),
     FileEntry(DefaultFolder, BadPrefix, DocTaggedTodo),
     FileEntry(DefaultFolder, BadMonth, DocLinkTodos)}

InitTodo ==
    /\ settings = [dailyNotesFolder |-> DefaultFolder, meetingNotesHeader |-> LineParent]
    /\ vault = TodoVault
    /\ tagLastIndex = 0
    /\ parsed = Null
    /\ prevParsed = Null
    /\ otherQuery = FALSE
    /\ allNotes = Null
    /\ PanelIdle
    /\ ViewIdle

\* a call of getTodosForMeetingNote(this.currentNote) up to the point where
\* getAllTodos has read the files; the reads touch nothing but the vault.
\* `dirtyStart` records whether LINK_REGEX had a non-zero lastIndex at the
\* call and `overlapped` whether the other call ran between two steps of
\* this one
BeginTodos(slot) ==
    /\ currentNote # Null
    /\ todoRuns[slot] = Null
    /\ todoRuns' = [todoRuns EXCEPT ![slot] =
                        [note |-> currentNote, allTodos |-> getAllTodos(vault),
                         k |-> 0, related |-> <<>>,
                         dirtyStart |-> linkLastIndex # 0, overlapped |-> FALSE]]
    /\ UNCHANGED <<settings, vault, tagLastIndex, parsed, prevParsed, otherQuery,
                   allNotes, currentNote, query, linkLastIndex, lastTodo>>
    /\ UNCHANGED viewVars

\* the call in `slot` resumed after its await: the todo it waited for is
\* classified and the loop runs on to its next await or to the return, where
\* `lastTodo` keeps the note and the result
ResumeTodos(slot) ==
    /\ todoRuns[slot] # Null
    /\ LET run == todoRuns[slot]
       IN  \E after \in {IF run.k = 0
                         THEN [related |-> run.related, lastIndex |-> linkLastIndex]
                         ELSE ClassifyTodo(vault, run.allTodos[run.k], run.note,
                                           run.related, linkLastIndex)} :
           \E next \in {TodoUntilAwait(vault, run.allTodos, run.k + 1, run.note,
                                       after.related, after.lastIndex)} :
               /\ linkLastIndex' = next.lastIndex
               /\ todoRuns' =
                      [s \in Slots |->
                          IF s # slot
                          THEN IF todoRuns[s] = Null \/ run.k = 0 THEN todoRuns[s]
                               ELSE [todoRuns[s] EXCEPT !.overlapped = TRUE]
                          ELSE IF next.done THEN Null
                          ELSE [run EXCEPT !.k = next.k, !.related = next.related]]
               /\ lastTodo' =
                      IF next.done
                      THEN [note |-> run.note, result |-> next.related,
                            dirtyStart |-> run.dirtyStart,
                            overlapped |-> run.overlapped]
                      ELSE lastTodo
    /\ UNCHANGED <<settings, vault, tagLastIndex, parsed, prevParsed, otherQuery,
                   allNotes, currentNote, query>>
    /\ UNCHANGED viewVars

\* the cursor is put on the line below the first line of a file
NextTodo ==
    \/ \E f \in vault : GetMeetingNoteAtCursor(f, 1)
    \/ \E slot \in Slots : BeginTodos(slot)
    \/ \E slot \in Slots : ResumeTodos(slot)

SpecTodo == InitTodo /\ [][NextTodo]_vars

(***************************************************************************)
(* tag-service.ts: the tags of the vault and the suggestion engine.        *)
(***************************************************************************)
\* the character class [a-z0-9] of tokenize
TokenChar == Lower \cup Digit

\* the index of the last character of the run of token characters at p
RECURSIVE TokenRunEnd(_, _)
TokenRunEnd(s, p) ==
    IF p + 1 <= Len(s) /\ s[p + 1] \in TokenChar THEN TokenRunEnd(s, p + 1) ELSE p

\* the k-th smallest element of a set of numbers
NthOf(S, k) == CHOOSE x \in S : Cardinality({y \in S : y < x}) = k - 1

\* (t) => t.length > 2
IsLongToken(t) == Len(t) > 2

\* tokenize(text): lower case, split on /[^a-z0-9]+/, short pieces dropped
\* (the empty pieces split leaves at the ends are short)
tokenize(text) ==
    LET low == ToLower(text)
        starts == {p \in 1..Len(low) :
                      low[p] \in TokenChar /\ (p = 1 \/ low[p - 1] \notin TokenChar)}
        pieces == [k \in 1..Cardinality(starts) |->
                      SubSeq(low, NthOf(starts, k), TokenRunEnd(low, NthOf(starts, k)))]
    IN  SelectSeq(pieces, IsLongToken)

\* tag.replace(/^#/, "").toLowerCase()
TagNameOf(tag) ==
    ToLower(IF Len(tag) > 0 /\ tag[1] = "#" THEN SubSeq(tag, 2, Len(tag)) ELSE tag)

\* tagName.split(/[/-]/): one part more than there are separators, empty
\* parts kept
TagPartsOf(tagName) ==
    LET seps == {p \in 1..Len(tagName) : tagName[p] \in {"/", "-"}}
        n == Cardinality(seps)
        From(k) == IF k = 1 THEN 1 ELSE NthOf(seps, k - 1) + 1
        To(k) == IF k = n + 1 THEN Len(tagName) ELSE NthOf(seps, k) - 1
    IN  [k \in 1..(n + 1) |-> SubSeq(tagName, From(k), To(k))]

\* the weights of a heading token: whole tag, equal part, overlapping part
HeadingWeightsAsContent == [whole |-> 3, exact |-> 5, overlap |-> 1]

HeadingWeights == [whole |-> 10, exact |-> 15, overlap |-> 5]

\* the weights of a body token
ContentWeights == [whole |-> 3, exact |-> 5, overlap |-> 1]

\* tagName.includes(token) || token.includes(tagName)
WholeOverlap(tagName, token) == Includes(tagName, token) \/ Includes(token, tagName)

\* part.includes(token) || token.includes(part)
PartOverlap(part, token) == Includes(part, token) \/ Includes(token, part)

\* what one part adds for one token
PartScore(part, token, w) ==
    IF part = token THEN w.exact
    ELSE IF PartOverlap(part, token) THEN w.overlap
    ELSE 0

RECURSIVE PartsScore(_, _, _, _)
PartsScore(tagParts, k, token, w) ==
    IF k > Len(tagParts) THEN 0
    ELSE PartScore(tagParts[k], token, w) + PartsScore(tagParts, k + 1, token, w)

\* the body of one of the two token loops of calculateTagScore
TokenScore(tagName, tagParts, token, w) ==
    (IF WholeOverlap(tagName, token) THEN w.whole ELSE 0)
    + PartsScore(tagParts, 1, token, w)

RECURSIVE TokensScore(_, _, _, _, _)
TokensScore(tagName, tagParts, tokens, k, w) ==
    IF k > Len(tokens) THEN 0
    ELSE TokenScore(tagName, tagParts, tokens[k], w)
         + TokensScore(tagName, tagParts, tokens, k + 1, w)

\* calculateTagScore(tag, headingTokens, contentTokens)
calculateTagScore(tag, headingTokens, contentTokens) ==
    \* the set binding evaluates the name and its parts once
    CHOOSE score \in
        {TokensScore(name, parts, headingTokens, 1, HeadingWeights)
         + TokensScore(name, parts, contentTokens, 1, ContentWeights) :
            name \in {TagNameOf(tag)}, parts \in {TagPartsOf(TagNameOf(tag))}} : TRUE

\* a token test that looks at the whole tag name only
TokenMatchesWholeOnly(tagName, tagParts, token) == WholeOverlap(tagName, token)

\* the test of getMatchReason for one token
TokenMatches(tagName, tagParts, token) ==
    \/ WholeOverlap(tagName, token)
    \/ \E k \in 1..Len(tagParts) :
           tagParts[k] = token \/ PartOverlap(tagParts[k], token)

\* unique.join(", ")
RECURSIVE JoinComma(_)
JoinComma(ts) ==
    IF Len(ts) = 0 THEN <<>>
    ELSE IF Len(ts) = 1 THEN ts[1]
    ELSE ts[1] \o <<",", " ">> \o JoinComma(Tail(ts))

\* "Related"
ReasonRelated == <<"R", "e", "l", "a", "t", "e", "d">>

\* "Matches: "
ReasonPrefix == <<"M", "a", "t", "c", "h", "e", "s", ":", " ">>

\* getMatchReason(tag, tokens)
getMatchReason(tag, tokens) ==
    LET tagName == TagNameOf(tag)
        tagParts == TagPartsOf(tagName)
        Matching(token) == TokenMatches(tagName, tagParts, token)
        all == Unique(SelectSeq(tokens, Matching))
        unique == SubSeq(all, 1, IF Len(all) < 3 THEN Len(all) ELSE 3)
    IN  IF Len(unique) = 0 THEN ReasonRelated
        ELSE ReasonPrefix \o JoinComma(unique)

\* the tags metadataCache holds for the files of getMarkdownFiles(), file by
\* file, one entry for every occurrence
RECURSIVE CacheTagsOfFiles(_, _, _)
CacheTagsOfFiles(v, files, k) ==
    IF k > Len(files) THEN <<>>
    ELSE getFileTags(v, Handle(files[k])) \o CacheTagsOfFiles(v, files, k + 1)

\* getAllTagNames(): the keys of the map getAllVaultTags() fills, in
\* insertion order
getAllTagNames(v) ==
    CHOOSE keys \in {Unique(CacheTagsOfFiles(v, files, 1)) :
                        files \in {getMarkdownFiles(v)}} : TRUE

\* a test for the tags of the note that compares the case too
IsExistingTagExact(tag, noteTags) == \E j \in 1..Len(noteTags) : noteTags[j] = tag

\* existingTags.has(tag.toLowerCase())
IsExistingTag(tag, noteTags) ==
    \E j \in 1..Len(noteTags) : ToLower(noteTags[j]) = ToLower(tag)

\* the comparator with its operands exchanged
ByScoreAscending(a, b) == a.score - b.score

\* (a, b) => b.score - a.score
ByScoreDescending(a, b) == b.score - a.score

RECURSIVE InsertByScore(_, _)
InsertByScore(sorted, x) ==
    IF Len(sorted) = 0 THEN <<x>>
    ELSE IF ByScoreDescending(sorted[Len(sorted)], x) <= 0
         THEN Append(sorted, x)
         ELSE Append(InsertByScore(SubSeq(sorted, 1, Len(sorted) - 1), x),
                     sorted[Len(sorted)])

\* Array.prototype.sort with ByScoreDescending: a stable sort
RECURSIVE SortByScore(_)
SortByScore(xs) ==
    IF Len(xs) = 0 THEN <<>>
    ELSE InsertByScore(SortByScore(SubSeq(xs, 1, Len(xs) - 1)), xs[Len(xs)])

\* slice(0, 10)
MaxSuggestions == 10

\* the body of the loop of suggestTags for a tag the note does not have
SuggestStep(tag, headingTokens, contentTokens, suggestions) ==
    LET Scored(score) ==
            IF score > 0
            THEN Append(suggestions,
                        [tag |-> tag, score |-> score,
                         reason |-> getMatchReason(tag, headingTokens \o contentTokens)])
            ELSE suggestions
    IN  CHOOSE r \in {Scored(score) :
                         score \in {calculateTagScore(tag, headingTokens,
                                                      contentTokens)}} : TRUE

\* the loop `for (const tag of allTags)` from allTags[k] on
RECURSIVE SuggestLoop(_, _, _, _, _, _)
SuggestLoop(allTags, k, note, headingTokens, contentTokens, suggestions) ==
    IF k > Len(allTags) THEN suggestions
    ELSE IF IsExistingTag(allTags[k], note.tags)
    THEN SuggestLoop(allTags, k + 1, note, headingTokens, contentTokens, suggestions)
    ELSE CHOOSE r \in
             {SuggestLoop(allTags, k + 1, note, headingTokens, contentTokens, next) :
                 next \in {SuggestStep(allTags[k], headingTokens, contentTokens,
                                       suggestions)}} : TRUE

\* suggestTags(note) after the tags were listed and the texts tokenized:
\* every tag of the vault, and what is returned
SuggestFrom(allTags, note, headingTokens, contentTokens) ==
    CHOOSE r \in
        {[allTags |-> allTags,
          suggestions |-> SubSeq(sorted, 1, IF Len(sorted) < MaxSuggestions
                                            THEN Len(sorted) ELSE MaxSuggestions)] :
            sorted \in {SortByScore(SuggestLoop(allTags, 1, note, headingTokens,
                                                contentTokens, <<>>))}} : TRUE

\* suggestTags(note)
suggestTags(v, note) ==
    CHOOSE r \in {SuggestFrom(allTags, note, headingTokens, contentTokens) :
                      allTags \in {getAllTagNames(v)},
                      headingTokens \in {tokenize(note.heading)},
                      contentTokens \in {tokenize(note.content)}} : TRUE

(***************************************************************************)
(* The vaults and notes the suggestion model explores.                     *)
(***************************************************************************)
\* the headings of the note, as the lines of its file
\* "### Team sync"
LineTeamSync == <<"#", "#", "#", " ", "T", "e", "a", "m", " ", "s", "y", "n", "c">>

\* "### Standup"
LineStandupOnly == <<"#", "#", "#", " ", "S", "t", "a", "n", "d", "u", "p">>

\* "### Xy #team"
LineShortTagged == <<"#", "#", "#", " ", "X", "y", " ", "#", "t", "e", "a", "m">>

\* "### Xy"
LineShort == <<"#", "#", "#", " ", "X", "y">>

SuggestHeadingLines == {LineStandup, LineTeamSync, LineStandupOnly, LineShortTagged,
                        LineShort}

\* the body lines of the note
\* "standup"
LineBodyStandup == <<"s", "t", "a", "n", "d", "u", "p">>

\* "Team team, SYNC daily"
LineBodyTeam == <<"T", "e", "a", "m", " ", "t", "e", "a", "m", ",", " ", "S", "Y", "N",
      "C", " ", "d", "a", "i", "l", "y">>

\* "ops #Sync"
LineBodyOps == <<"o", "p", "s", " ", "#", "S", "y", "n", "c">>

\* the bodies: none, one line, two lines
SuggestBodies == {<<>>, <<LineBodyStandup>>, <<LineBodyTeam>>, <<LineBodyOps>>,
                  <<LineBodyOps, LineBodyStandup>>}

\* a document that uses thirteen tags, two of them with an empty part:
\* "#team-a #team-b #team/x #teams #tea #Team #a--"
\* followed by "  #foo/ #sync #daily-sync #standup #zzz #team"
LineTagsMany ==
    <<"#", "t", "e", "a", "m", "-", "a", " ", "#", "t", "e", "a", "m",
      "-", "b", " ", "#", "t", "e", "a", "m", "/", "x", " ", "#", "t",
      "e", "a", "m", "s", " ", "#", "t", "e", "a", " ", "#", "T", "e",
      "a", "m", " ", "#", "a", "-", "-", "b", " ", "#", "f", "o", "o",
      "/", " ", "#", "s", "y", "n", "c", " ", "#", "d", "a", "i", "l",
      "y", "-", "s", "y", "n", "c", " ", "#", "s", "t", "a", "n", "d",
      "u", "p", " ", "#", "z", "z", "z", " ", "#", "t", "e", "a", "m">>

\* "#team #zzz #team #Ops #sync": tags another document uses too
LineTagsFew ==
    <<"#", "t", "e", "a", "m", " ", "#", "z", "z", "z", " ", "#", "t",
      "e", "a", "m", " ", "#", "O", "p", "s", " ", "#", "s", "y", "n",
      "c">>

\* the other files of the vault: none, one with many tags, the two of them,
\* one without tags
SuggestExtras ==
    {{},
     {FileEntry(<<>>, NameTags, LineTagsMany)},
     {FileEntry(<<>>, NameTags, LineTagsMany), FileEntry(<<>>, NameMore, LineTagsFew)},
     {FileEntry(<<>>, NameMore, LinePlain)}}

\* a vault whose daily note holds one meeting note
SuggestVault(headingLine, body, extra) ==
    {FolderEntry(<<>>, DefaultFolder),
     FileEntry(DefaultFolder, Name0115, Join(<<LineParent, headingLine>> \o body))}
    \cup extra

SuggestVaults ==
    {SuggestVault(h, b, x) : h \in SuggestHeadingLines, b \in SuggestBodies,
                             x \in SuggestExtras}

\* the panel with the cursor on the heading of the meeting note
InitSuggest ==
    /\ settings = [dailyNotesFolder |-> DefaultFolder, meetingNotesHeader |-> LineParent]
    /\ vault \in SuggestVaults
    /\ tagLastIndex = 0
    /\ parsed = Null
    /\ prevParsed = Null
    /\ otherQuery = FALSE
    /\ allNotes = Null
    /\ \E f \in vault :
           /\ f.name = Name0115
           /\ currentNote = getMeetingNoteAtCursor(f, 1, settings.meetingNotesHeader,
                                                   0).note
    /\ query = Null
    /\ linkLastIndex = 0
    /\ todoRuns = [s \in Slots |-> Null]
    /\ lastTodo = Null
    /\ ViewIdle

\* a call of suggestTags(this.currentNote) by the panel
SuggestTags ==
    /\ currentNote # Null
    /\ \E r \in {suggestTags(vault, currentNote)} :
           query' = [kind |-> "suggest", note |-> currentNote,
                     allTags |-> r.allTags, result |-> r.suggestions]
    /\ UNCHANGED <<settings, vault, tagLastIndex, parsed, prevParsed, otherQuery,
                   allNotes, currentNote, linkLastIndex, todoRuns, lastTodo>>
    /\ UNCHANGED viewVars

NextSuggest == SuggestTags

SpecSuggest == InitSuggest /\ [][NextSuggest]_vars

(***************************************************************************)
(* reflector-view.ts: the view's tracking of the open file and the cursor  *)
(* (onFileOpen, checkCursorPosition, refresh, addTagToCurrentNote) under   *)
(* the events main.ts registers.  A call of checkCursorPosition is two     *)
(* steps, one up to its await and one from the await on; a render is one   *)
(* step.                                                                   *)
(***************************************************************************)
\* the calls of checkCursorPosition that can await together
MaxPending == 2

\* the edits of the vault the model follows
MaxEdits == 1

\* the last line the cursor of an editor is put on
MaxCursor == 2

\* "### Alpha"
LineAlpha == <<"#", "#", "#", " ", "A", "l", "p", "h", "a">>

\* "### Team"
LineTeam == <<"#", "#", "#", " ", "T", "e", "a", "m">>

\* "### Ops"
LineOps == <<"#", "#", "#", " ", "O", "p", "s">>

\* "#team #alpha #ops"
LineViewTags == <<"#", "t", "e", "a", "m", " ", "#", "a", "l", "p", "h", "a", " ",
      "#", "o", "p", "s">>

\* two children without a line between them, the second with a body line
DocAdjacent == Join(<<LineParent, LineAlpha, LineTeam, LinePlain>>)

\* a child without a body line, closed by a level-2 heading
DocClosed == Join(<<LineParent, LineOps, LineOtherH2>>)

\* the files that are opened in an editor
ViewFileNames == {Name0115, Name0116}

ViewVault ==
    {FolderEntry(<<>>, DefaultFolder),
     FileEntry(DefaultFolder, Name0115, DocAdjacent),
     FileEntry(DefaultFolder, Name0116, DocClosed),
     FileEntry(<<>>, NameTags, LineViewTags)}

\* the vault entry a TFile handle stands for
EntryFor(v, file) == CHOOSE e \in v : e.kind = "file" /\ Handle(e) = file

\* the note getMeetingNoteAtCursor returns for a handle and a line
NoteAt(v, file, line, headerSetting) ==
    getMeetingNoteAtCursor(EntryFor(v, file), line, headerSetting, 0).note

\* render(): the panel is drawn for the tracked file and the current note
\* from queries it runs anew
Rendered(file, note) == [file |-> file, note |-> note]

\* what the model remembers of the past: whether a modify event came after
\* the last render, whether a call started while another awaited, the call
\* started last, whether the last event was a file open with no call
\* awaiting, the number of edits, and the last tag insertion
InitialHistory ==
    [stale |-> FALSE, overlapped |-> FALSE, newest |-> Null, sinceOpen |-> FALSE,
     edits |-> 0, lastEdit |-> Null]

InitView ==
    /\ settings = [dailyNotesFolder |-> DefaultFolder, meetingNotesHeader |-> LineParent]
    /\ vault = ViewVault
    /\ tagLastIndex = 0
    /\ parsed = Null
    /\ prevParsed = Null
    /\ otherQuery = FALSE
    /\ allNotes = Null
    /\ PanelIdle
    /\ trackedFile = Null
    /\ cursor = [n \in ViewFileNames |-> 0]
    /\ currentLine = -1
    /\ pending = <<>>
    /\ rendered = Rendered(Null, Null)
    /\ history = InitialHistory

\* line === this.currentLine
SameLine(line, recorded) == line = recorded

\* checkCursorPosition() up to its await, for the tracked file `file`, the
\* recorded line `recorded`, the current note `note` and the history `h`:
\* the line recorded, the calls awaiting and the history after it
CheckUntilAwait(file, recorded, note, h) ==
    IF file = Null
    THEN [currentLine |-> recorded, pending |-> pending, history |-> h]
    ELSE IF SameLine(cursor[file.name], recorded)
    THEN [currentLine |-> recorded, pending |-> pending, history |-> h]
    ELSE [currentLine |-> cursor[file.name],
          pending |-> Append(pending, [file |-> file, line |-> cursor[file.name]]),
          history |-> [h EXCEPT !.overlapped = (pending # <<>>),
                                !.newest = [file |-> file,
                                            line |-> cursor[file.name]]]]

\* the user puts the cursor of an editor on another line
MoveCursor(n, line) ==
    /\ n \in ViewFileNames /\ line \in 0..MaxCursor
    /\ line # cursor[n]
    /\ cursor' = [cursor EXCEPT ![n] = line]
    /\ history' = [history EXCEPT !.sinceOpen = FALSE]
    /\ UNCHANGED <<settings, vault, tagLastIndex, parsed, prevParsed, otherQuery,
                   allNotes, panelVars, trackedFile, currentLine, pending, rendered>>

\* onFileOpen(null, null): tracking is cleared and the panel rendered
OnFileClose ==
    /\ trackedFile' = Null
    /\ currentNote' = Null
    /\ currentLine' = -1
    /\ rendered' = Rendered(Null, Null)
    /\ history' = [history EXCEPT !.stale = FALSE, !.sinceOpen = FALSE]
    /\ UNCHANGED <<settings, vault, tagLastIndex, parsed, prevParsed, otherQuery,
                   allNotes, query, linkLastIndex, todoRuns, lastTodo, cursor, pending>>

\* onFileOpen(file, editor) for the file named n and its editor
OnFileOpen(n) ==
    /\ n \in ViewFileNames
    /\ Len(pending) < MaxPending
    /\ \E f \in {Handle(e) : e \in {x \in vault : x.kind = "file" /\ x.name = n}} :
       \E c \in {CheckUntilAwait(f, currentLine, currentNote,
                                 [history EXCEPT !.sinceOpen = (pending = <<>>)])} :
           /\ trackedFile' = f
           /\ currentLine' = c.currentLine
           /\ pending' = c.pending
           /\ history' = c.history
    /\ UNCHANGED <<settings, vault, tagLastIndex, parsed, prevParsed, otherQuery,
                   allNotes, panelVars, cursor, rendered>>

\* the 300 ms interval: checkCursorPosition() on the view
Poll ==
    /\ Len(pending) < MaxPending
    /\ \E c \in {CheckUntilAwait(trackedFile, currentLine, currentNote, history)} :
           /\ currentLine' = c.currentLine
           /\ pending' = c.pending
           /\ history' = c.history
    /\ UNCHANGED <<settings, vault, tagLastIndex, parsed, prevParsed, otherQuery,
                   allNotes, panelVars, trackedFile, cursor, rendered>>

\* refresh() up to the await of its checkCursorPosition, with history `h`
RefreshUntilAwait(h) ==
    \E c \in {CheckUntilAwait(trackedFile, -1, Null, h)} :
        /\ currentNote' = Null
        /\ currentLine' = c.currentLine
        /\ pending' = c.pending
        /\ history' = c.history

\* the command "Refresh sidebar": refresh() on the view
Refresh ==
    /\ Len(pending) < MaxPending
    /\ RefreshUntilAwait([history EXCEPT !.sinceOpen = FALSE])
    /\ UNCHANGED <<settings, vault, tagLastIndex, parsed, prevParsed, otherQuery,
                   allNotes, query, linkLastIndex, todoRuns, lastTodo, trackedFile,
                   cursor, rendered>>

\* the vault with the text of one file replaced
WithContent(v, file, content) ==
    {IF e.kind = "file" /\ Handle(e) = file
     THEN FileEntry(e.parent, e.name, content) ELSE e : e \in v}

\* the vault's "modify" event after an edit: refreshView()
ModifyEvent(h) ==
    RefreshUntilAwait([h EXCEPT !.stale = (trackedFile # Null), !.sinceOpen = FALSE,
                                !.edits = @ + 1])

\* the user types a line at the end of the file named n
EditFile(n) ==
    /\ n \in ViewFileNames
    /\ history.edits < MaxEdits
    /\ Len(pending) < MaxPending
    /\ \E e \in {x \in vault : x.kind = "file" /\ x.name = n} :
           vault' = WithContent(vault, Handle(e), cachedRead(e) \o <<NL>> \o LinePlain)
    /\ ModifyEvent(history)
    /\ UNCHANGED <<settings, tagLastIndex, parsed, prevParsed, otherQuery,
                   allNotes, query, linkLastIndex, todoRuns, lastTodo, trackedFile,
                   cursor, rendered>>

\* lines[insertLine] = newLineContent on a JavaScript array: an index past
\* the end lengthens the array, and join() writes the holes as empty lines
SetLine(lines, insertLine, newLineContent) ==
    [k \in 1..(IF insertLine + 1 > Len(lines) THEN insertLine + 1 ELSE Len(lines)) |->
        IF k = insertLine + 1 THEN newLineContent
        ELSE IF k <= Len(lines) THEN lines[k]
        ELSE <<>>]

\* const insertLine = note.lineStart + 1
InsertLine(note) == note.lineStart + 1

\* the text addTagToCurrentNote writes for the text it read
WithTag(content, note, tag) ==
    LET lines == Split(content)
        insertLine == InsertLine(note)
        currentLineContent == IF insertLine < Len(lines) THEN lines[insertLine + 1]
                              ELSE <<>>
        newLineContent == IF Trim(currentLineContent) = <<>> THEN tag
                          ELSE currentLineContent \o <<" ">> \o tag
    IN  Join(SetLine(lines, insertLine, newLineContent))

\* renderTagSuggestionsSection: suggestions.slice(0, 5) are shown
ShownSuggestions(v, note) ==
    CHOOSE shown \in {SubSeq(r.suggestions, 1, IF Len(r.suggestions) < 5
                                              THEN Len(r.suggestions) ELSE 5) :
                         r \in {suggestTags(v, note)}} : TRUE

\* a click on the i-th suggested tag: addTagToCurrentNote(suggestion), with a
\* markdown leaf open; vault.modify raises the "modify" event
AddTagToCurrentNote(i) ==
    /\ currentNote # Null /\ trackedFile # Null
    /\ history.edits < MaxEdits
    /\ Len(pending) < MaxPending
    /\ \E shown \in {ShownSuggestions(vault, currentNote)} :
           /\ i \in 1..Len(shown)
           /\ \E before \in {cachedRead(EntryFor(vault, currentNote.file))} :
              \E after \in {WithTag(before, currentNote, shown[i].tag)} :
                  /\ vault' = WithContent(vault, currentNote.file, after)
                  /\ ModifyEvent([history EXCEPT
                         !.lastEdit = [note |-> currentNote, tag |-> shown[i].tag,
                                       before |-> before, after |-> after]])
    /\ UNCHANGED <<settings, tagLastIndex, parsed, prevParsed, otherQuery,
                   allNotes, query, linkLastIndex, todoRuns, lastTodo, trackedFile,
                   cursor, rendered>>

\* the sequence without its i-th element
RemoveAt(q, i) == SubSeq(q, 1, i - 1) \o SubSeq(q, i + 1, Len(q))

\* the i-th awaiting call of checkCursorPosition goes on after its await:
\* the reads of one file are answered in the order they were asked, the
\* reads of different files in any order
CompleteCheck(i) ==
    /\ i \in 1..Len(pending)
    /\ \A j \in 1..(i - 1) : pending[j].file # pending[i].file
    /\ \E r \in {getMeetingNoteAtCursor(EntryFor(vault, pending[i].file),
                                        pending[i].line, settings.meetingNotesHeader,
                                        tagLastIndex)} :
           /\ tagLastIndex' = r.lastIndex
           /\ IF NoteChanged(r.note, currentNote)
              THEN /\ currentNote' = r.note
                   /\ rendered' = Rendered(trackedFile, r.note)
                   /\ history' = [history EXCEPT !.stale = FALSE]
              ELSE UNCHANGED <<currentNote, rendered, history>>
    /\ pending' = RemoveAt(pending, i)
    /\ UNCHANGED <<settings, vault, parsed, prevParsed, otherQuery,
                   allNotes, query, linkLastIndex, todoRuns, lastTodo, trackedFile,
                   cursor, currentLine>>

NextView ==
    \/ \E n \in ViewFileNames : \E line \in 0..MaxCursor : MoveCursor(n, line)
    \/ OnFileClose
    \/ \E n \in ViewFileNames : OnFileOpen(n)
    \/ Poll
    \/ Refresh
    \/ \E n \in ViewFileNames : EditFile(n)
    \/ \E i \in 1..5 : AddTagToCurrentNote(i)
    \/ \E i \in 1..MaxPending : CompleteCheck(i)

SpecView == InitView /\ [][NextView]_vars

\* an awaiting call leaves the calls that await: the steps of NextView that
\* do this are the steps CompleteCheck(i), and one is possible whenever a
\* call awaits
AwaitAnswered ==
    /\ pending # <<>>
    /\ \E i \in 1..Len(pending) : pending' = RemoveAt(pending, i)

\* the interval keeps firing and every awaited read is answered
SpecViewFair ==
    /\ SpecView
    /\ WF_vars(Poll)
    /\ WF_pending(AwaitAnswered)

(***************************************************************************)
(* What the properties say about the last parseDailyNote call, stated on   *)
(* the document text itself and not on the scan.                           *)
(***************************************************************************)
PLines == parsed.lines

PCount == Len(PLines)

PHeader == Trim(parsed.header)

PNotes == parsed.notes

\* the trimmed text of line i (0-indexed)
PTrimmed(i) == Trim(PLines[i + 1])

ParentLine(i) == PTrimmed(i) = PHeader

\* a level-2 heading that is not the parent heading
Level2Line(i) == StartsWith(PTrimmed(i), <<"#", "#", " ">>) /\ ~ParentLine(i)

\* a level-1 heading that is not the parent heading
Level1Line(i) == StartsWith(PTrimmed(i), <<"#", " ">>) /\ ~ParentLine(i)

\* a child heading
ChildLine(i) == StartsWith(PTrimmed(i), <<"#", "#", "#", " ">>) /\ ~ParentLine(i)

\* line i lies in a parent section: a parent heading precedes it and no
\* level-2 heading stands between the two
InsideAt(i) ==
    \E j \in 0..(i - 1) :
        ParentLine(j) /\ \A k \in (j + 1)..(i - 1) : ~Level2Line(k)

NoteStartsAt(i) == \E x \in 1..Len(PNotes) : PNotes[x].lineStart = i

\* the child heading at s is still open at line k
OpenUntil(s, k) ==
    /\ s < k /\ ChildLine(s) /\ InsideAt(s)
    /\ \A m \in (s + 1)..(k - 1) : ~ChildLine(m) /\ ~Level2Line(m)

\* "## N", " ###  B ", "### Standup #team #daily-sync", "## n"
BoundaryExample == Join(<<LineParent, LineChildB, LineStandup, LineOtherH2>>)

\* the first child or section-closing heading after line s, else the line count
ExpectedEnd(s) ==
    IF \E k \in (s + 1)..(PCount - 1) : ChildLine(k) \/ Level2Line(k)
    THEN CHOOSE k \in (s + 1)..(PCount - 1) :
             /\ ChildLine(k) \/ Level2Line(k)
             /\ \A m \in (s + 1)..(k - 1) : ~ChildLine(m) /\ ~Level2Line(m)
    ELSE PCount

\* C1: every note ends at the first later child heading or heading that closes
\* the section, or at the line count when none follows; parent, child A,
\* child B, sibling level-2 heading gives two notes with A.end = B.start and
\* B.end = the sibling's index.
C1_EndLine ==
    parsed # Null =>
        /\ \A x \in 1..Len(PNotes) : PNotes[x].lineEnd = ExpectedEnd(PNotes[x].lineStart)
        /\ (parsed.content = BoundaryExample /\ PHeader = LineParent) =>
               /\ Len(PNotes) = 2
               /\ PNotes[1].lineEnd = PNotes[2].lineStart
               /\ PNotes[2].lineEnd = 3

C1_Witness ==
    /\ parsed # Null
    /\ parsed.content = BoundaryExample
    /\ PHeader = LineParent
    /\ Len(PNotes) = 2
    /\ PNotes[1].lineStart = 1 /\ PNotes[2].lineStart = 2

\* C2: every note has start line < end line, whatever the text and the
\* configured parent heading, a note without body lines included.
C2_StartBeforeEnd ==
    parsed # Null =>
        \A x \in 1..Len(PNotes) : PNotes[x].lineStart < PNotes[x].lineEnd

\* a note without body lines on the last line of the document
C2_Witness ==
    /\ parsed # Null
    /\ \E x \in 1..Len(PNotes) :
           /\ PNotes[x].lineStart = PCount - 1
           /\ PNotes[x].content = <<>>
           /\ PNotes[x].lineEnd = PCount

\* the number of `#` a heading line starts with, 0 when it is no heading
HeadingLevel(t) ==
    IF \E n \in 1..(Len(t) - 1) : (\A j \in 1..n : t[j] = "#") /\ t[n + 1] = " "
    THEN CHOOSE n \in 1..(Len(t) - 1) : (\A j \in 1..n : t[j] = "#") /\ t[n + 1] = " "
    ELSE 0

\* a heading of the parent's level or above, other than the parent heading
SameOrHigherLine(i) ==
    /\ HeadingLevel(PTrimmed(i)) >= 1
    /\ HeadingLevel(PTrimmed(i)) <= HeadingLevel(PHeader)
    /\ ~ParentLine(i)

InsideBySameOrHigher(i) ==
    \E j \in 0..(i - 1) :
        ParentLine(j) /\ \A k \in (j + 1)..(i - 1) : ~SameOrHigherLine(k)

\* C3 as stated: inside the section every heading of the parent's level or
\* above (level 1 as well as level 2) closes it: no note runs across such a
\* line and later child headings give no note until the parent heading recurs.
C3_SameOrHigherCloses ==
    parsed # Null =>
        \A k \in 0..(PCount - 1) :
            (SameOrHigherLine(k) /\ InsideBySameOrHigher(k)) =>
                /\ \A x \in 1..Len(PNotes) :
                       ~(PNotes[x].lineStart < k /\ k < PNotes[x].lineEnd)
                /\ \A c \in (k + 1)..(PCount - 1) :
                       (ChildLine(c) /\ \A m \in (k + 1)..(c - 1) : ~ParentLine(m))
                           => ~NoteStartsAt(c)

\* C3 amended: inside the section a level-2 heading other than the parent
\* heading closes it: the open child note ends at that line's index and later
\* child headings give no note until the parent heading recurs; a level-1
\* heading does not close the section, no note ends at it.
C3_Level2Closes ==
    parsed # Null =>
        /\ \A k \in 0..(PCount - 1) :
               (Level2Line(k) /\ InsideAt(k)) =>
                   /\ \A s \in 0..(k - 1) :
                          OpenUntil(s, k) =>
                              \E x \in 1..Len(PNotes) :
                                  PNotes[x].lineStart = s /\ PNotes[x].lineEnd = k
                   /\ \A c \in (k + 1)..(PCount - 1) :
                          (ChildLine(c) /\ \A m \in (k + 1)..(c - 1) : ~ParentLine(m))
                              => ~NoteStartsAt(c)
        /\ \A x \in 1..Len(PNotes) :
               PNotes[x].lineEnd < PCount => ~Level1Line(PNotes[x].lineEnd)
        /\ \A k \in 0..(PCount - 1), s \in 0..(PCount - 1) :
               (Level1Line(k) /\ OpenUntil(s, k)) =>
                   \E x \in 1..Len(PNotes) :
                       PNotes[x].lineStart = s /\ PNotes[x].lineEnd > k

\* a level-2 heading closes an open note, a child heading follows it without
\* a note, and a level-1 heading lies inside another note
C3_Witness ==
    /\ parsed # Null
    /\ \E k \in 0..(PCount - 1) :
           /\ Level2Line(k) /\ InsideAt(k)
           /\ \E s \in 0..(k - 1) : OpenUntil(s, k)
           /\ \E c \in (k + 1)..(PCount - 1) : ChildLine(c) /\ ~NoteStartsAt(c)
    /\ \E k \in 0..(PCount - 1), x \in 1..Len(PNotes) :
           Level1Line(k) /\ PNotes[x].lineStart < k /\ k < PNotes[x].lineEnd

\* C4: a note's body is the raw lines start+1 .. end-1 joined by newline, a
\* repeated parent heading line inside the span included.
C4_BodyIsRawSpan ==
    parsed # Null =>
        \A x \in 1..Len(PNotes) :
            PNotes[x].content =
                Join(SubSeq(PLines, PNotes[x].lineStart + 2, PNotes[x].lineEnd))

\* C5: without a line equal (trimmed, case-sensitive) to the parent heading
\* the result is empty whatever child headings there are; so it is for a
\* document without child heading.
C5_NoParentNoNotes ==
    (/\ parsed # Null
     /\ \/ ~\E i \in 0..(PCount - 1) : ParentLine(i)
        \/ ~\E i \in 0..(PCount - 1) : ChildLine(i))
    => PNotes = <<>>

\* child headings and the parent heading in another case, no parent heading
C5_Witness ==
    /\ parsed # Null
    /\ PHeader = LineParent
    /\ \E i \in 0..(PCount - 1) : PTrimmed(i) = LineOtherH2
    /\ \E i \in 0..(PCount - 1) : ChildLine(i)
    /\ ~\E i \in 0..(PCount - 1) : ParentLine(i)
    /\ PNotes = <<>>

\* C6: the parent section can recur: a child heading gives a note exactly
\* when a parent heading precedes it with no closing heading in between, so
\* child headings after a re-entry give notes and those between the close and
\* the re-entry give none.
C6_Reentry ==
    parsed # Null =>
        \A c \in 0..(PCount - 1) :
            ChildLine(c) => (NoteStartsAt(c) <=> InsideAt(c))

\* parent, close, child without note, parent again, child with a note
C6_Witness ==
    /\ parsed # Null
    /\ \E j \in 0..(PCount - 1), k \in 0..(PCount - 1), c \in 0..(PCount - 1),
          r \in 0..(PCount - 1), d \in 0..(PCount - 1) :
           /\ j < k /\ k < c /\ c < r /\ r < d
           /\ ParentLine(j) /\ Level2Line(k) /\ ChildLine(c) /\ ParentLine(r)
           /\ ChildLine(d)
           /\ ~NoteStartsAt(c) /\ NoteStartsAt(d)

\* the positions of text t where a hashtag starts
TagStarts(t) == {p \in 1..(Len(t) - 1) : t[p] = "#" /\ t[p + 1] \in TagChar}

\* the hashtag that starts at position p of text t
TagAt(t, p) ==
    SubSeq(t, p, CHOOSE q \in (p + 1)..Len(t) :
                     /\ \A j \in (p + 1)..q : t[j] \in TagChar
                     /\ q = Len(t) \/ t[q + 1] \notin TagChar)

HashtagsIn(t) == {TagAt(t, p) : p \in TagStarts(t)}

Min(S) == CHOOSE m \in S : \A o \in S : m <= o

\* where hashtag g first occurs in heading line h followed by body c
FirstOccurrence(h, c, g) ==
    IF g \in HashtagsIn(h)
    THEN Min({p \in TagStarts(h) : TagAt(h, p) = g})
    ELSE Len(h) + 1 + Min({p \in TagStarts(c) : TagAt(c, p) = g})

TagTeam == <<"#", "t", "e", "a", "m">>

TagDailySync == <<"#", "d", "a", "i", "l", "y", "-", "s", "y", "n", "c">>

\* C7: a note's tags are the hashtags of its heading line and its body, each
\* once, ordered by first occurrence, heading first; the heading line
\* "### Standup #team #daily-sync" gives #team, #daily-sync first, in that order.
C7_Tags ==
    parsed # Null =>
        \A x \in 1..Len(PNotes) :
            LET n == PNotes[x]
                h == PTrimmed(n.lineStart)
                c == n.content
            IN  /\ {n.tags[a] : a \in 1..Len(n.tags)} = HashtagsIn(h) \cup HashtagsIn(c)
                /\ \A a \in 1..Len(n.tags), b \in 1..Len(n.tags) :
                       a < b => /\ n.tags[a] # n.tags[b]
                                /\ FirstOccurrence(h, c, n.tags[a])
                                       < FirstOccurrence(h, c, n.tags[b])
                /\ h = LineStandup =>
                       /\ Len(n.tags) >= 2
                       /\ SubSeq(n.tags, 1, 2) = <<TagTeam, TagDailySync>>

\* a tag of the heading repeated in the body, and a tag only the body has
C7_Witness ==
    /\ parsed # Null
    /\ \E x \in 1..Len(PNotes) :
           /\ PTrimmed(PNotes[x].lineStart) = LineStandup
           /\ TagTeam \in HashtagsIn(PNotes[x].content)
           /\ Len(PNotes[x].tags) = 3

HeadingStandup == <<"S", "t", "a", "n", "d", "u", "p">>

HeadingStandupWithTags == <<"S", "t", "a", "n", "d", "u", "p", " ", "#", "t", "e", "a", "m", " ", "#", "d", "a", "i", "l", "y", "-", "s", "y", "n", "c">>

\* C8 as stated: the heading is the title with the marker stripped, trimmed;
\* the line "### Standup #team #daily-sync" gives the heading "Standup".
C8_HeadingIsTitle ==
    parsed # Null =>
        \A x \in 1..Len(PNotes) :
            LET h == PNotes[x].heading
            IN  /\ h # <<>> /\ h[1] \notin WhiteSpace /\ h[Len(h)] \notin WhiteSpace
                /\ PTrimmed(PNotes[x].lineStart) = LineStandup => h = HeadingStandup

\* C8 amended: the heading is the trimmed heading line without its "### "
\* marker, trimmed again, hashtags kept; "### Standup #team #daily-sync"
\* gives the heading "Standup #team #daily-sync".
C8_HeadingKeepsTags ==
    parsed # Null =>
        \A x \in 1..Len(PNotes) :
            LET h == PNotes[x].heading
                t == PTrimmed(PNotes[x].lineStart)
            IN  /\ h # <<>> /\ h[1] \notin WhiteSpace /\ h[Len(h)] \notin WhiteSpace
                /\ Len(t) >= 4 + Len(h)
                /\ SubSeq(t, 1, 4) = <<"#", "#", "#", " ">>
                /\ \A j \in 5..(Len(t) - Len(h)) : t[j] \in WhiteSpace
                /\ SubSeq(t, Len(t) - Len(h) + 1, Len(t)) = h
                /\ t = LineStandup => h = HeadingStandupWithTags

\* the example heading line and a heading line with white space to strip
C8_Witness ==
    /\ parsed # Null
    /\ \E x \in 1..Len(PNotes) :
           /\ PLines[PNotes[x].lineStart + 1] = LineStandup
           /\ PNotes[x].heading = HeadingStandupWithTags
    /\ \E x \in 1..Len(PNotes) :
           /\ PLines[PNotes[x].lineStart + 1] = LineChildB
           /\ PNotes[x].heading = <<"B">>

\* the fields of a note the idempotence property compares
NoteFields(n) ==
    [heading |-> n.heading, content |-> n.content, tags |-> n.tags,
     lineStart |-> n.lineStart, lineEnd |-> n.lineEnd]

\* C9: two parseDailyNote calls on the same file with the same text and the
\* same header setting return notes equal in heading, body, tags, start and
\* end line, whatever query ran between them.
C9_Idempotent ==
    (/\ parsed # Null /\ prevParsed # Null
     /\ parsed.file = prevParsed.file
     /\ parsed.content = prevParsed.content
     /\ parsed.header = prevParsed.header)
    => /\ Len(parsed.notes) = Len(prevParsed.notes)
       /\ \A x \in 1..Len(parsed.notes) :
              NoteFields(parsed.notes[x]) = NoteFields(prevParsed.notes[x])

\* a second call on the same text after getAllMeetingNotes ran, tagged notes
C9_Witness ==
    /\ parsed # Null /\ prevParsed # Null
    /\ parsed.file = prevParsed.file
    /\ parsed.content = prevParsed.content
    /\ parsed.header = prevParsed.header
    /\ parsed.afterQuery
    /\ allNotes # Null /\ Len(allNotes.notes) > 0
    /\ \E x \in 1..Len(parsed.notes) : Len(parsed.notes[x].tags) > 1

\* four digits, dash, two digits, dash, two digits, ".md"
IsDateName(name) ==
    /\ Len(name) = 13
    /\ \A i \in {1, 2, 3, 4, 6, 7, 9, 10} : name[i] \in Digit
    /\ name[5] = "-" /\ name[8] = "-"
    /\ SubSeq(name, 11, 13) = <<".", "m", "d">>

\* the file handle h is a file of the vault directly inside folder path p
EligibleIn(h, p) ==
    /\ h.parent = p
    /\ IsDateName(h.name)
    /\ \E e \in vault : e.kind = "file" /\ Handle(e) = h

\* C10: getAllMeetingNotes lists and returns notes only of files that are
\* direct children of the configured folder and named as a date with ".md";
\* when the configured path is missing or no folder, both lists are empty.
C10_OnlyEligibleFiles ==
    allNotes # Null =>
        /\ \A k \in 1..Len(allNotes.files) : EligibleIn(allNotes.files[k], allNotes.folder)
        /\ \A x \in 1..Len(allNotes.notes) :
               EligibleIn(allNotes.notes[x].file, allNotes.folder)
        /\ (~\E e \in vault : e.kind = "folder" /\ PathOf(e) = allNotes.folder)
               => allNotes.files = <<>> /\ allNotes.notes = <<>>

\* notes returned from a folder that also holds files with rejected names, a
\* sub-folder named as a date and a daily note below it
C10_Witness ==
    /\ allNotes # Null
    /\ allNotes.folder = DefaultFolder
    /\ Len(allNotes.files) = 2
    /\ Len(allNotes.notes) = 3
    /\ \A bad \in BadNames :
           \E e \in vault : e.parent = DefaultFolder /\ e.name = bad /\ e.kind = "file"
    /\ \E e \in vault : e.kind = "folder" /\ e.parent = DefaultFolder /\ IsDateName(e.name)
    /\ \E e \in vault : e.kind = "file" /\ e.parent = SubFolder /\ IsDateName(e.name)

DigitSeq == <<"0", "1", "2", "3", "4", "5", "6", "7", "8", "9">>

DigitValue(c) == (CHOOSE k \in 1..10 : DigitSeq[k] = c) - 1

\* a date key YYYY-MM-DD as the number YYYYMMDD: two keys compare as strings
\* the way their numbers compare
DateNumber(d) ==
    LET v(i) == DigitValue(d[i])
    IN  v(1) * 10000000 + v(2) * 1000000 + v(3) * 100000 + v(4) * 10000
        + v(6) * 1000 + v(7) * 100 + v(9) * 10 + v(10)

\* the notes parseDailyNote gives for vault entry e under header setting h
NotesOfFile(e, h) == parseDailyNote(Handle(e), cachedRead(e), h, 0).notes

\* note n is a note of an eligible file of folder path p under header h
FromEligibleFile(n, p, h) ==
    \E e \in vault :
        /\ e.kind = "file" /\ Handle(e) = n.file /\ EligibleIn(n.file, p)
        /\ \E i \in 1..Len(NotesOfFile(e, h)) : NotesOfFile(e, h)[i] = n

\* the sequence ns holds, each exactly once, the notes of the eligible files
\* of folder path p under header h
IsUnionOfEligible(ns, p, h) ==
    /\ \A x \in 1..Len(ns) : FromEligibleFile(ns[x], p, h)
    /\ \A x \in 1..Len(ns), y \in 1..Len(ns) : x # y => ns[x] # ns[y]
    /\ \A e \in vault :
           (e.kind = "file" /\ EligibleIn(Handle(e), p)) =>
               \A i \in 1..Len(NotesOfFile(e, h)) :
                   \E x \in 1..Len(ns) : ns[x] = NotesOfFile(e, h)[i]

\* consecutive notes of ns have non-increasing date keys
DateDescending(ns) ==
    \A x \in 1..(Len(ns) - 1) : DateNumber(ns[x].date) >= DateNumber(ns[x + 1].date)

\* C11: getAllMeetingNotes returns the notes of every eligible document, none
\* lost and none twice, ordered by date key descending: of two consecutive
\* notes the earlier one's date key is >= the later one's.
C11_UnionByDateDescending ==
    allNotes # Null =>
        /\ DateDescending(allNotes.notes)
        /\ IsUnionOfEligible(allNotes.notes, allNotes.folder, allNotes.header)

\* the folder listed the older file first and the newer file's notes come first
C11_Witness ==
    /\ allNotes # Null
    /\ Len(allNotes.files) = 2
    /\ allNotes.files[1].name = Name0115 /\ allNotes.files[2].name = Name0116
    /\ Len(allNotes.notes) = 3
    /\ allNotes.notes[1].file.name = Name0116
    /\ allNotes.notes[3].file.name = Name0115

\* the indices of the notes of ns without a tag
UntaggedAt(ns) == {x \in 1..Len(ns) : ns[x].tags = <<>>}

\* the k-th smallest element of the set of numbers I
KthOf(I, k) == CHOOSE x \in I : Cardinality({y \in I : y < x}) = k - 1

\* C12: getUntaggedMeetingNotes returns exactly the notes of getAllMeetingNotes
\* whose tag set is empty, in the same relative order; when exactly one of
\* three notes has no tag the result is the one-element sequence of that note.
C12_Untagged ==
    (query # Null /\ query.kind = "untagged") =>
        /\ IsUnionOfEligible(query.all, query.folder, query.header)
        /\ DateDescending(query.all)
        /\ Len(query.result) = Cardinality(UntaggedAt(query.all))
        /\ \A k \in 1..Len(query.result) :
               query.result[k] = query.all[KthOf(UntaggedAt(query.all), k)]
        /\ (Len(query.all) = 3 /\ Cardinality(UntaggedAt(query.all)) = 1) =>
               \E x \in 1..3 : query.all[x].tags = <<>> /\ query.result = <<query.all[x]>>

\* three notes of two files, only the first of them without a tag
C12_Witness ==
    /\ query # Null /\ query.kind = "untagged"
    /\ Len(query.all) = 3
    /\ query.all[1].tags = <<>> /\ query.all[2].tags # <<>> /\ query.all[3].tags # <<>>
    /\ query.all[1].file # query.all[3].file
    /\ query.result = <<query.all[1]>>

\* the vault entry a file handle names
EntryOf(h) == CHOOSE e \in vault : e.kind = "file" /\ Handle(e) = h

\* the first note of ns whose span [start, end) holds line l, else Null
FirstContaining(ns, l) ==
    LET I == {x \in 1..Len(ns) : ns[x].lineStart <= l /\ l < ns[x].lineEnd}
    IN  IF I = {} THEN Null ELSE ns[KthOf(I, 1)]

CollectionNotes(p, h) ==
    UNION {{NotesOfFile(e, h)[i] : i \in 1..Len(NotesOfFile(e, h))} :
              e \in {f \in vault : f.kind = "file" /\ EligibleIn(Handle(f), p)}}

TagsOf(n) == {n.tags[k] : k \in 1..Len(n.tags)}

\* the same note by document path and start line
SamePlace(a, b) ==
    a.file.parent = b.file.parent /\ a.file.name = b.file.name
    /\ a.lineStart = b.lineStart

\* C14: getRelatedMeetingNotes(note) returns exactly the notes of the
\* collection that share a tag (exact, case-sensitive) with the note and are
\* not the same note by document path plus start line; for a note without
\* tags it returns the empty sequence.
C14_Related ==
    (query # Null /\ query.kind = "related") =>
        LET X == query.note
            R == query.result
        IN  /\ {R[x] : x \in 1..Len(R)} =
                   {n \in CollectionNotes(query.folder, query.header) :
                        TagsOf(n) \cap TagsOf(X) # {} /\ ~SamePlace(n, X)}
            /\ \A x \in 1..Len(R), y \in 1..Len(R) : x # y => R[x] # R[y]
            /\ X.tags = <<>> => R = <<>>

\* the note is in the collection, two other notes share tags with it and a
\* third has one of its tags in another case
C14_Witness ==
    /\ query # Null /\ query.kind = "related"
    /\ query.note \in CollectionNotes(query.folder, query.header)
    /\ Len(query.result) = 2
    /\ \E n \in CollectionNotes(query.folder, query.header) :
           /\ TagsOf(n) \cap TagsOf(query.note) = {}
           /\ \E t \in TagsOf(n), u \in TagsOf(query.note) :
                  t # u /\ ToLower(t) = ToLower(u)

\* the notes getMeetingNoteAtCursor can return under header h
CursorNotes(h) ==
    UNION {{NotesOfFile(e, h)[i] : i \in 1..Len(NotesOfFile(e, h))} :
              e \in {f \in vault : f.kind = "file" /\ IsDateName(f.name)}}

\* what getRelatedMeetingNotes(Y) returns in the current state
RelatedNow(Y) ==
    LET children == CHOOSE c \in FolderListings : TRUE
    IN  getRelatedMeetingNotes(vault, settings, children, Y, tagLastIndex).notes

\* C15: for notes X and Y obtainable from getAllMeetingNotes or from
\* getMeetingNoteAtCursor that have a common tag, Y is in
\* getRelatedMeetingNotes(X) and X is in getRelatedMeetingNotes(Y); no note
\* is in its own related list.
C15_SymmetricIrreflexive ==
    (query # Null /\ query.kind = "related" /\ query.header = settings.meetingNotesHeader) =>
        LET X == query.note
            R == query.result
        IN  /\ \A x \in 1..Len(R) : ~SamePlace(R[x], X)
            /\ \A Y \in CollectionNotes(query.folder, query.header)
                        \cup CursorNotes(query.header) :
                   (TagsOf(X) \cap TagsOf(Y) # {} /\ ~SamePlace(X, Y)) =>
                       /\ \E x \in 1..Len(R) : R[x] = Y
                       /\ \E y \in 1..Len(RelatedNow(Y)) : RelatedNow(Y)[y] = X

\* the number of tags note n shares with note X
SharedWith(n, X) == Cardinality(TagsOf(n) \cap TagsOf(X))

\* C16: the result of getRelatedMeetingNotes is ordered by the number of
\* tags shared with the given note, descending, and among notes with the same
\* number by date key descending.
C16_RelatedOrder ==
    (query # Null /\ query.kind = "related") =>
        \A x \in 1..(Len(query.result) - 1) :
            LET a == query.result[x]
                b == query.result[x + 1]
            IN  \/ SharedWith(a, query.note) > SharedWith(b, query.note)
                \/ /\ SharedWith(a, query.note) = SharedWith(b, query.note)
                   /\ DateNumber(a.date) >= DateNumber(b.date)

\* an older note with two shared tags stands before a newer note with one
C16_Witness ==
    /\ query # Null /\ query.kind = "related"
    /\ Len(query.result) = 2
    /\ SharedWith(query.result[1], query.note) = 2
    /\ SharedWith(query.result[2], query.note) = 1
    /\ DateNumber(query.result[1].date) < DateNumber(query.result[2].date)

\* item c is a checklist item of another document than note X
OtherDocument(c, X) == c.file.parent # X.file.parent \/ c.file.name # X.file.name

\* the hashtags of the document of checklist item c that match a tag of
\* note X when case is ignored, as tags of X
DocumentTagsShared(c, X) ==
    {t \in TagsOf(X) :
        \E u \in HashtagsIn(cachedRead(EntryOf(c.file))) : ToLower(u) = ToLower(t)}

\* the related items of R that are checklist item c
ItemsFor(R, c) == {x \in 1..Len(R) : R[x].file = c.file /\ R[x].line = c.line}

\* the checklist text of the note's own document that shares its tag and
\* links to it
TextOwnTodo ==
    <<"o", "w", "n", " ", "#", "t", "e", "a", "m", " ", "[", "[", "2", "0", "2",
      "4", "-", "0", "1", "-", "1", "5", "]", "]">>

\* C17: getTodosForMeetingNote(note) never returns a checklist item of the
\* note's own document, even when the item shares tags with the note or
\* mentions its heading.
C17_NoOwnItems ==
    lastTodo # Null =>
        \A x \in 1..Len(lastTodo.result) :
            OtherDocument(lastTodo.result[x], lastTodo.note)

\* items of other documents are returned while the note's own document has
\* an open item that carries the note's tag and links to the document
C17_Witness ==
    /\ lastTodo # Null
    /\ Len(lastTodo.result) = 3
    /\ \E e \in vault :
           /\ e.kind = "file" /\ Handle(e) = lastTodo.note.file
           /\ \E own \in {getTodosFromFile(e)} :
                  \E i \in 1..Len(own) : own[i].text = TextOwnTodo
    /\ TagTeam \in TagsOf(lastTodo.note)

\* C18: for a note with tags, an open checklist item of another document
\* whose document-level tags meet the note's tags, case ignored, is returned
\* with reason "shared tag" and with matchingTags equal to the matched tags in
\* the note's casing, each once: exactly <<t>> when t is the one common tag.
C18_SharedTag ==
    (lastTodo # Null /\ lastTodo.note.tags # <<>>) =>
        LET X == lastTodo.note
            R == lastTodo.result
        IN  \A all \in {getAllTodos(vault)} : \A i \in 1..Len(all) :
                LET c == all[i]
                IN  (OtherDocument(c, X) /\ DocumentTagsShared(c, X) # {}) =>
                        \E x \in ItemsFor(R, c) :
                            /\ R[x].relationReason = "shared tag"
                            /\ {R[x].matchingTags[k] : k \in 1..Len(R[x].matchingTags)}
                                   = DocumentTagsShared(c, X)
                            /\ Len(R[x].matchingTags) = Cardinality(DocumentTagsShared(c, X))

\* where text t holds "[[": target, then "]]" or "|", an alias and "]]", the
\* target being b or ending in "/" and b
HasLinkTo(t, b) ==
    \E i \in 1..Len(t), r \in 1..Len(t) :
        /\ i + 2 <= r
        /\ t[i] = "[" /\ t[i + 1] = "["
        /\ \A j \in (i + 2)..r : t[j] \notin {"]", "|"}
        /\ LET target == SubSeq(t, i + 2, r)
           IN  \/ target = b
               \/ /\ Len(target) > Len(b)
                  /\ SubSeq(target, Len(target) - Len(b), Len(target)) = <<"/">> \o b
        /\ \/ r + 2 <= Len(t) /\ t[r + 1] = "]" /\ t[r + 2] = "]"
           \/ /\ r + 1 <= Len(t) /\ t[r + 1] = "|"
              /\ \E a \in (r + 2)..(Len(t) - 2) :
                     /\ \A j \in (r + 2)..a : t[j] # "]"
                     /\ t[a + 1] = "]" /\ t[a + 2] = "]"

\* the lower-cased text t holds the lower-cased heading h
HasHeadingOf(t, h) ==
    \E i \in 1..(Len(t) - Len(h) + 1) :
        \A j \in 1..Len(h) : ToLower(<<t[i + j - 1]>>) = ToLower(<<h[j]>>)

\* item c refers to note X
RefersTo(c, X) ==
    \/ HasLinkTo(c.text, SubSeq(X.file.name, 1, Len(X.file.name) - 3))
    \/ HasHeadingOf(c.text, X.heading)

TextBrokenLink ==
    <<"[", "[", "2", "0", "2", "4", "-", "0", "1", "-", "1", "5">>

TextPathLink ==
    <<"z", " ", "[", "[", "a", "/", "2", "0", "2", "4", "-", "0", "1", "-", "1",
      "5", "|", "z", "]", "]">>

\* C19: a checklist item of another document without a shared-tag match is
\* returned, with reason "linked" and no matchingTags, exactly when its text
\* holds a wiki link whose target is the note's document base name (or ends
\* in "/" and that name) or, lower-cased, holds the lower-cased heading; an
\* item matching neither is left out, a malformed link is no link, and an
\* item with both a shared tag and a reference has reason "shared tag".
C19_Linked ==
    lastTodo # Null =>
        LET X == lastTodo.note
            R == lastTodo.result
        IN  \A all \in {getAllTodos(vault)} : \A i \in 1..Len(all) :
                LET c == all[i]
                IN  /\ (OtherDocument(c, X) /\ DocumentTagsShared(c, X) = {}) =>
                           /\ RefersTo(c, X) =>
                                  /\ Cardinality(ItemsFor(R, c)) = 1
                                  /\ \A x \in ItemsFor(R, c) :
                                         /\ R[x].relationReason = "linked"
                                         /\ R[x].matchingTags = <<>>
                           /\ ~RefersTo(c, X) => ItemsFor(R, c) = {}
                           /\ c.text = TextBrokenLink => ItemsFor(R, c) = {}
                    /\ (OtherDocument(c, X) /\ DocumentTagsShared(c, X) # {}
                        /\ RefersTo(c, X)) =>
                           \A x \in ItemsFor(R, c) : R[x].relationReason = "shared tag"

\* a link by path and alias gives "linked", the malformed link is left
\* out, and an item with the note's tag and a link has reason "shared tag"
C19_Witness ==
    /\ lastTodo # Null
    /\ \E x \in 1..Len(lastTodo.result) :
           /\ lastTodo.result[x].text = TextPathLink
           /\ lastTodo.result[x].relationReason = "linked"
    /\ \E x \in 1..Len(lastTodo.result) :
           /\ HasLinkTo(lastTodo.result[x].text, lastTodo.note.date)
           /\ lastTodo.result[x].relationReason = "shared tag"
    /\ \E all \in {getAllTodos(vault)} :
           \E i \in 1..Len(all) : all[i].text = TextBrokenLink
    /\ \A x \in 1..Len(lastTodo.result) : lastTodo.result[x].text # TextBrokenLink

\* C20: for the fixed vault, getTodosForMeetingNote(note) returns what an
\* uninterrupted call with LINK_REGEX.lastIndex = 0 returns, whatever ran
\* before it, the other call interleaved with it at its awaits, and an
\* earlier link check that returned early and left lastIndex non-zero.
C20_NoSharedState ==
    lastTodo # Null =>
        lastTodo.result = getTodosForMeetingNote(vault, lastTodo.note, 0).related

\* a call that began with lastIndex left non-zero, overlapped by the other
\* call, and that returned related items
C20_Witness ==
    /\ lastTodo # Null
    /\ lastTodo.dirtyStart
    /\ lastTodo.overlapped
    /\ Len(lastTodo.result) = 3

(***************************************************************************)
(* The suggestion engine.                                                  *)
(***************************************************************************)
\* the hashtags of the markdown documents of a vault
VaultTagSet(v) ==
    UNION {HashtagsIn(e.content) :
              e \in {x \in v : x.kind = "file" /\ Extension(x.name) = <<"m", "d">>}}

\* g is on the note, whatever the case of its letters
OnNote(g, X) == \E k \in 1..Len(X.tags) : ToLower(X.tags[k]) = ToLower(g)

\* the candidate pool: the tags of the vault that are not on the note
Candidates(v, X) == {g \in VaultTagSet(v) : ~OnNote(g, X)}

\* the score of a candidate for a note
ScoreFor(g, X) == calculateTagScore(g, tokenize(X.heading), tokenize(X.content))

SuggestedTags(R) == {R[i].tag : i \in 1..Len(R)}

\* C21: suggestTags returns at most 10 suggestions, each a candidate with its
\* score, in non-increasing score order, and no candidate left out with a
\* score above 0 has a score strictly greater than a returned one
C21_TopTen ==
    (query # Null /\ query.kind = "suggest") =>
        \A R \in {query.result} : \A X \in {query.note} :
            /\ Len(R) <= 10
            /\ \A i \in 1..Len(R) :
                   /\ R[i].tag \in Candidates(vault, X)
                   /\ R[i].score = ScoreFor(R[i].tag, X)
            /\ \A i \in 1..Len(R) : \A j \in (i + 1)..Len(R) : R[i].score >= R[j].score
            /\ \A g \in Candidates(vault, X) \ SuggestedTags(R) :
                   \A sc \in {ScoreFor(g, X)} :
                       sc > 0 => \A i \in 1..Len(R) : sc <= R[i].score

\* eleven candidates score above 0: ten are returned, with different scores
\* among them, and the one left out scores above 0
C21_Witness ==
    /\ query # Null /\ query.kind = "suggest"
    /\ Len(query.result) = 10
    /\ query.result[1].score > query.result[10].score
    /\ \E g \in Candidates(vault, query.note) \ SuggestedTags(query.result) :
           ScoreFor(g, query.note) > 0

\* C22: suggestTags never returns a tag that is on the note, compared without
\* regard to case, and returns each tag of the vault at most once
C22_NotOnNoteOnce ==
    (query # Null /\ query.kind = "suggest") =>
        \A R \in {query.result} :
            /\ \A i \in 1..Len(R) : ~OnNote(R[i].tag, query.note)
            /\ \A i \in 1..Len(R) : \A j \in 1..Len(R) : R[i].tag = R[j].tag => i = j

\* the places where hashtag g occurs in the markdown documents of the vault
Occurrences(v, g) ==
    UNION {{<<e.name, p>> : p \in {q \in TagStarts(e.content) : TagAt(e.content, q) = g}} :
              e \in {x \in v : x.kind = "file"}}

TagTeamUpper == <<"#", "T", "e", "a", "m">>

\* the note is tagged #team, the vault uses #Team too, and a returned tag is
\* used in two places of the vault
C22_Witness ==
    /\ query # Null /\ query.kind = "suggest"
    /\ \E k \in 1..Len(query.note.tags) : query.note.tags[k] = TagTeam
    /\ TagTeamUpper \in VaultTagSet(vault)
    /\ \E i \in 1..Len(query.result) :
           Cardinality(Occurrences(vault, query.result[i].tag)) >= 2

\* the name of a tag and its parts that are not empty
NameAndParts(g) ==
    LET name == TagNameOf(g)
        starts == {p \in 1..Len(name) :
                      name[p] \notin {"/", "-"} /\ (p = 1 \/ name[p - 1] \in {"/", "-"})}
        EndOf(p) == CHOOSE q \in p..Len(name) :
                        /\ \A j \in p..q : name[j] \notin {"/", "-"}
                        /\ q = Len(name) \/ name[q + 1] \in {"/", "-"}
    IN  {name} \cup {SubSeq(name, p, EndOf(p)) : p \in starts}

\* the words of a text: lower case runs of letters and digits longer than 2
WordsOf(text) ==
    LET low == ToLower(text)
        IsWord(a, b) == /\ \A j \in a..b : low[j] \in Lower \cup Digit
                        /\ a = 1 \/ low[a - 1] \notin Lower \cup Digit
                        /\ b = Len(low) \/ low[b + 1] \notin Lower \cup Digit
    IN  {SubSeq(low, ab[1], ab[2]) :
            ab \in {x \in (1..Len(low)) \X (1..Len(low)) :
                       x[1] + 2 <= x[2] /\ IsWord(x[1], x[2])}}

\* x occurs inside y
Inside(x, y) == \E a \in 0..(Len(y) - Len(x)) : SubSeq(y, a + 1, a + Len(x)) = x

\* the tag's name or one of its parts overlaps a word of the note
OverlapsNote(g, X) ==
    \E x \in NameAndParts(g) : \E t \in WordsOf(X.heading) \cup WordsOf(X.content) :
        Inside(t, x) \/ Inside(x, t)

\* C23: every suggestion has a score above 0, and a candidate whose name and
\* parts overlap no heading or body token of the note is never returned,
\* tags with an empty part included
C23_ZeroOverlapNeverSuggested ==
    (query # Null /\ query.kind = "suggest") =>
        \A i \in 1..Len(query.result) :
            /\ query.result[i].score > 0
            /\ OverlapsNote(query.result[i].tag, query.note)

\* the tokens of the note that overlap the tag
MatchingWords(g, X, text) ==
    {t \in WordsOf(text) : \E x \in NameAndParts(g) : Inside(t, x) \/ Inside(x, t)}

\* how often word t occurs as a token of the text
CountOf(t, text) ==
    Cardinality({k \in 1..Len(tokenize(text)) : tokenize(text)[k] = t})

\* the only token of the note that overlaps tag g is t, once in the heading
OnlyInHeading(g, X, t) ==
    /\ MatchingWords(g, X, X.heading) = {t} /\ CountOf(t, X.heading) = 1
    /\ MatchingWords(g, X, X.content) = {}

\* the only token of the note that overlaps tag g is t, once in the body
OnlyInBody(g, X, t) ==
    /\ MatchingWords(g, X, X.content) = {t} /\ CountOf(t, X.content) = 1
    /\ MatchingWords(g, X, X.heading) = {}

\* the notes the model starts from: heading and body of every vault
SuggestNotes ==
    {[heading |-> NoteHeading(Trim(h)), content |-> Join(b)] :
        h \in SuggestHeadingLines, b \in SuggestBodies}

\* C24: a tag whose bare name equals a token t scores strictly higher for a
\* note whose only matching token is t once in the heading than for a note
\* whose only matching token is t once in the body
C24_HeadingOutweighsBody ==
    (query # Null /\ query.kind = "suggest") =>
        \A i \in 1..Len(query.result) :
            \A g \in {query.result[i].tag} : \A t \in {TagNameOf(g)} :
                OnlyInHeading(g, query.note, t) =>
                    \A Y \in SuggestNotes :
                        OnlyInBody(g, Y, t) => query.result[i].score > ScoreFor(g, Y)

\* #standup is suggested for a note with "standup" once, in its heading, and
\* another note has it once, in its body
C24_Witness ==
    /\ query # Null /\ query.kind = "suggest"
    /\ \E i \in 1..Len(query.result) :
           /\ OnlyInHeading(query.result[i].tag, query.note,
                            TagNameOf(query.result[i].tag))
           /\ \E Y \in SuggestNotes :
                  OnlyInBody(query.result[i].tag, Y, TagNameOf(query.result[i].tag))

\* the tokens of the note that add to the score of tag g, in the order they
\* are first seen in the heading and then in the body, each once
Contributing(g, X) ==
    LET Adds(t) == calculateTagScore(g, <<t>>, <<>>) > 0
    IN  Unique(SelectSeq(tokenize(X.heading) \o tokenize(X.content), Adds))

\* C25: the reason of every suggestion is "Matches: " followed by the first
\* one to three distinct tokens that added to the score, separated by ", ";
\* it is never "Related"
C25_Reason ==
    (query # Null /\ query.kind = "suggest") =>
        \A i \in 1..Len(query.result) :
            \A ts \in {Contributing(query.result[i].tag, query.note)} :
                /\ Len(ts) >= 1
                /\ query.result[i].reason =
                       ReasonPrefix \o
                       JoinComma(SubSeq(ts, 1, IF Len(ts) < 3 THEN Len(ts) ELSE 3))
                /\ query.result[i].reason # ReasonRelated

\* four tokens added to the score of a suggestion whose reason names three,
\* and a suggestion matched through one of its parts only
C25_Witness ==
    /\ query # Null /\ query.kind = "suggest"
    /\ \E i \in 1..Len(query.result) :
           Len(Contributing(query.result[i].tag, query.note)) >= 4
    /\ \E i \in 1..Len(query.result) :
           \A t \in WordsOf(query.note.heading) \cup WordsOf(query.note.content) :
               ~WholeOverlap(TagNameOf(query.result[i].tag), t)

(***************************************************************************)
(* The view under file opens, cursor moves, the interval, edits and the    *)
(* completion of awaited reads.                                            *)
(***************************************************************************)
\* C26: after every "modify" event that arrives while the view tracks a
\* file, the panel is eventually rendered again, whether or not the cursor
\* is inside a meeting note
C26_ModifyThenRendered == (history # Null /\ history.stale) ~> ~history.stale

\* the two are the same note: none both, or the same file and start line
SameNoteOrNone(a, b) == ~NoteChanged(a, b)

\* the note at the cursor of the tracked file's editor
NoteAtCursor ==
    NoteAt(vault, trackedFile, cursor[trackedFile.name], settings.meetingNotesHeader)

\* C27: after onFileOpen(file, editor) with a file and an editor, once the
\* check it started has completed, currentNote is the note at the editor's
\* cursor line in the newly tracked file (none if there is none), never a
\* note of another file, and the panel has been rendered for that file
C27_OpenThenCurrent ==
    (history # Null /\ history.sinceOpen /\ pending = <<>>) =>
        /\ SameNoteOrNone(currentNote, NoteAtCursor)
        /\ currentNote # Null => currentNote.file = trackedFile
        /\ rendered.file = trackedFile

\* C28: when calls of checkCursorPosition overlapped and all have completed,
\* and the call started last was the one for the tracked file and the line
\* in currentLine, currentNote is the note at that line of the tracked file:
\* the late result of an earlier call does not replace the newer one
C28_LateResultNeverWins ==
    (/\ history # Null /\ history.overlapped /\ pending = <<>>
     /\ trackedFile # Null
     /\ history.newest = [file |-> trackedFile, line |-> currentLine]) =>
        SameNoteOrNone(currentNote,
                       NoteAt(vault, trackedFile, currentLine,
                              settings.meetingNotesHeader))

\* the notes of a file's text under the header setting
NotesOfText(file, content) ==
    parseDailyNote(file, content, settings.meetingNotesHeader, 0).notes

\* the lines at which two texts differ (a missing line differs from any line)
ChangedLines(before, after) ==
    LET b == Split(before)
        a == Split(after)
        n == IF Len(a) > Len(b) THEN Len(a) ELSE Len(b)
    IN  {k \in 0..(n - 1) :
            \/ k + 1 > Len(a) \/ k + 1 > Len(b)
            \/ a[k + 1] # b[k + 1]}

\* what the re-parse keeps of a note apart from its text
Kept(n) == [lineStart |-> n.lineStart, heading |-> n.heading, tags |-> n.tags]

\* the members of a sequence of notes that do not start at line l
OtherNotes(notes, l) == {Kept(notes[k]) : k \in {j \in 1..Len(notes) : notes[j].lineStart # l}}

\* C29: addTagToCurrentNote changes exactly one line of the note's file, a
\* line of the current note; the re-parse gives the note at the same start
\* line the suggested tag and leaves the start line, heading and tags of
\* every other note as they were
C29_AddTagFrame ==
    (history # Null /\ history.lastEdit # Null) =>
        \A e \in {history.lastEdit} :
        \A before \in {NotesOfText(e.note.file, e.before)} :
        \A after \in {NotesOfText(e.note.file, e.after)} :
            /\ \E k \in e.note.lineStart..(e.note.lineEnd - 1) :
                   ChangedLines(e.before, e.after) = {k}
            /\ \E j \in 1..Len(after) :
                   /\ after[j].lineStart = e.note.lineStart
                   /\ \E t \in 1..Len(after[j].tags) : after[j].tags[t] = e.tag
            /\ OtherNotes(after, e.note.lineStart) = OtherNotes(before, e.note.lineStart)

\* the notes of the last parse whose [start, end) span holds line l
NotesHolding(l) ==
    {x \in 1..Len(PNotes) : PNotes[x].lineStart <= l /\ l < PNotes[x].lineEnd}

\* C30: the notes parseDailyNote returns have strictly increasing start
\* lines and pairwise disjoint [start, end) spans, each note ending at or
\* before the start of the next, so at most one note holds any line; and
\* every child heading line inside the parent section yields exactly one note
C30_OrderedDisjoint ==
    parsed # Null =>
        /\ \A x \in 1..(Len(PNotes) - 1) :
               /\ PNotes[x].lineStart < PNotes[x + 1].lineStart
               /\ PNotes[x].lineEnd <= PNotes[x + 1].lineStart
        /\ \A l \in 0..(PCount - 1) : Cardinality(NotesHolding(l)) <= 1
        /\ \A i \in 0..(PCount - 1) :
               (ChildLine(i) /\ InsideAt(i)) =>
                   Cardinality({x \in 1..Len(PNotes) : PNotes[x].lineStart = i}) = 1

\* two notes with lines between them that belong to neither: the section
\* was left after the first and entered again before the second
C30_Witness ==
    /\ parsed # Null
    /\ Len(PNotes) >= 2
    /\ \E x \in 1..(Len(PNotes) - 1) : PNotes[x].lineEnd < PNotes[x + 1].lineStart
====
